---- MODULE Spec2Model ----
(***************************************************************************)
(* LazyReview: the navigation state machine of src/app.tsx (the version    *)
(* with search and chunk navigation, src/unnamed/part_003 lines 268-1224)  *)
(* over the git operations of src/utils/git.ts (src/unnamed/part_002).     *)
(*                                                                         *)
(* Text is modelled at character level.  A character is a one-character    *)
(* string, a line is a sequence of characters, and a text (a JavaScript    *)
(* string that the code splits on "\n") is the non-empty sequence of its   *)
(* lines: s.split("\n") and lines.join("\n") are inverse bijections        *)
(* between strings and such sequences, so both are the identity on this    *)
(* representation.  The empty string is the text with one empty line.      *)
(***************************************************************************)
EXTENDS Integers, Sequences, FiniteSets, Bags, TLC

Null == "null"

Max(a, b) == IF a >= b THEN a ELSE b
Min(a, b) == IF a <= b THEN a ELSE b

SetMin(S) == CHOOSE x \in S : \A y \in S : x <= y

(***************************************************************************)
(* Strings                                                                 *)
(***************************************************************************)
EmptyText == << <<>> >>

\* JavaScript truthiness of a string: "" is falsy
Truthy(text) == text # EmptyText

\* s.startsWith(p)
StartsWith(s, p) ==
    /\ Len(p) <= Len(s)
    /\ \A k \in 1..Len(p) : s[k] = p[k]

\* the literal lit occurs in s at (1-based) position i
HasAt(s, i, lit) ==
    /\ i >= 1
    /\ i + Len(lit) - 1 <= Len(s)
    /\ \A k \in 1..Len(lit) : s[i + k - 1] = lit[k]

Digits == <<"0", "1", "2", "3", "4", "5", "6", "7", "8", "9">>

IsDigit(c) == \E d \in 1..10 : Digits[d] = c

DigitVal(c) == (CHOOSE d \in 1..10 : Digits[d] = c) - 1

\* \d+ is greedy: the position just past the run of digits that starts at i
RECURSIVE DigitsEnd(_, _)
DigitsEnd(s, i) ==
    IF i <= Len(s) /\ IsDigit(s[i]) THEN DigitsEnd(s, i + 1) ELSE i

\* parseInt(s.substring(i-1, j-1), 10) for a run of digits s[i..j-1]
RECURSIVE ParseInt(_, _, _)
ParseInt(s, i, j) ==
    IF j <= i THEN 0 ELSE ParseInt(s, i, j - 1) * 10 + DigitVal(s[j - 1])

\* `${n}` for a non-negative integer n
RECURSIVE IntToStr(_)
IntToStr(n) ==
    IF n < 10 THEN <<Digits[n + 1]>>
    ELSE IntToStr(n \div 10) \o <<Digits[(n % 10) + 1]>>

\* (?:,\d+)? at position i: the position after it
OptCount(s, i) ==
    IF HasAt(s, i, <<",">>) /\ DigitsEnd(s, i + 1) > i + 1
    THEN DigitsEnd(s, i + 1)
    ELSE i

\* /@@ -(\d+)(?:,\d+)? \+(\d+)(?:,\d+)? @@/ tried at position i
HunkMatchAt(s, i) ==
    LET a == i + 4
        b == DigitsEnd(s, a)
        c == OptCount(s, b)
        d == c + 2
        e == DigitsEnd(s, d)
        f == OptCount(s, e)
    IN  IF /\ HasAt(s, i, <<"@", "@", " ", "-">>)
           /\ b > a
           /\ HasAt(s, c, <<" ", "+">>)
           /\ e > d
           /\ HasAt(s, f, <<" ", "@", "@">>)
        THEN [ok |-> TRUE, old |-> ParseInt(s, a, b), new |-> ParseInt(s, d, e)]
        ELSE [ok |-> FALSE, old |-> 0, new |-> 0]

\* line.match(/@@ -(\d+)(?:,\d+)? \+(\d+)(?:,\d+)? @@/): the leftmost match
HunkMatch(s) ==
    LET hits == {i \in 1..Len(s) : HunkMatchAt(s, i).ok}
    IN  IF hits = {} THEN [ok |-> FALSE, old |-> 0, new |-> 0]
        ELSE HunkMatchAt(s, SetMin(hits))

IsAddition(line) == StartsWith(line, <<"+">>) /\ ~StartsWith(line, <<"+", "+", "+">>)

IsDeletion(line) == StartsWith(line, <<"-">>) /\ ~StartsWith(line, <<"-", "-", "-">>)

(***************************************************************************)
(* git.ts: diff helpers                                                    *)
(***************************************************************************)
\* generateUnifiedDiff(filePath, content)
generateUnifiedDiff(content) ==
    << <<"@", "@", " ", "-", "0", ",", "0", " ", "+", "1", ",">>
         \o IntToStr(Len(content)) \o <<" ", "@", "@">> >>
    \o [i \in 1..Len(content) |-> <<"+">> \o content[i]]

\* Not the code: a loop in which a deletion advances the counter like an
\* addition.  C16 tells it from ParseChangedLoop.
RECURSIVE ParseChangedLoopCountingDeletions(_, _, _, _)
ParseChangedLoopCountingDeletions(diff, i, currentLine, acc) ==
    IF i > Len(diff) THEN acc
    ELSE LET line == diff[i] IN
         IF StartsWith(line, <<"@", "@">>)
         THEN ParseChangedLoopCountingDeletions(diff, i + 1,
                  IF HunkMatch(line).ok THEN HunkMatch(line).new - 1 ELSE currentLine,
                  acc)
         ELSE IF IsAddition(line) \/ IsDeletion(line)
         THEN ParseChangedLoopCountingDeletions(diff, i + 1, currentLine + 1,
                                                Append(acc, currentLine))
         ELSE IF StartsWith(line, <<" ">>) \/ line = <<>>
         THEN ParseChangedLoopCountingDeletions(diff, i + 1, currentLine + 1, acc)
         ELSE ParseChangedLoopCountingDeletions(diff, i + 1, currentLine, acc)

\* parseChangedLines(diff): the loop over diff.split("\n"), from line i on,
\* with the running counter currentLine and the positions recorded so far
RECURSIVE ParseChangedLoop(_, _, _, _)
ParseChangedLoop(diff, i, currentLine, acc) ==
    IF i > Len(diff) THEN acc
    ELSE LET line == diff[i] IN
         IF StartsWith(line, <<"@", "@">>)
         THEN ParseChangedLoop(diff, i + 1,
                  IF HunkMatch(line).ok THEN HunkMatch(line).new - 1 ELSE currentLine,
                  acc)
         ELSE IF IsAddition(line)
         THEN ParseChangedLoop(diff, i + 1, currentLine + 1, Append(acc, currentLine))
         ELSE IF IsDeletion(line)
         THEN ParseChangedLoop(diff, i + 1, currentLine, Append(acc, currentLine))
         ELSE IF StartsWith(line, <<" ">>) \/ line = <<>>
         THEN ParseChangedLoop(diff, i + 1, currentLine + 1, acc)
         ELSE ParseChangedLoop(diff, i + 1, currentLine, acc)

parseChangedLines(diff) == ParseChangedLoop(diff, 1, 0, <<>>)

SeqToSet(q) == {q[i] : i \in 1..Len(q)}

CountAdditions(diff) == Cardinality({i \in 1..Len(diff) : IsAddition(diff[i])})

CountDeletions(diff) == Cardinality({i \in 1..Len(diff) : IsDeletion(diff[i])})

\* line.substring(1)
Substring1(line) == SubSeq(line, 2, Len(line))

\* Not the code: no line is taken for a file header.  C26 tells it from
\* IsFileHeader.
IsFileHeaderNever(line) == FALSE

\* line.startsWith("+++") || line.startsWith("---")
IsFileHeader(line) ==
    StartsWith(line, <<"+", "+", "+">>) \/ StartsWith(line, <<"-", "-", "-">>)

\* line.startsWith("diff --git") || line.startsWith("new file") ||
\* line.startsWith("index ")
IsGitHeader(line) ==
    \/ StartsWith(line, <<"d", "i", "f", "f", " ", "-", "-", "g", "i", "t">>)
    \/ StartsWith(line, <<"n", "e", "w", " ", "f", "i", "l", "e">>)
    \/ StartsWith(line, <<"i", "n", "d", "e", "x", " ">>)

\* Not the code: a header that does not match the pattern sets both
\* counters back to 0.  C29 tells it from DiffHeader.
DiffHeaderResetting(line, st) ==
    LET match == HunkMatch(line) IN
    [oldLineNum |-> IF match.ok THEN match.old ELSE 0,
     newLineNum |-> IF match.ok THEN match.new ELSE 0,
     lines |-> Append(st.lines, [type |-> "header", content |-> line])]

\* parseDiff, the branch of a line that starts with @@; st holds the two
\* counters and the DiffLines pushed so far
DiffHeader(line, st) ==
    LET match == HunkMatch(line) IN
    [oldLineNum |-> IF match.ok THEN match.old ELSE st.oldLineNum,
     newLineNum |-> IF match.ok THEN match.new ELSE st.newLineNum,
     lines |-> Append(st.lines, [type |-> "header", content |-> line])]

\* Not the code: a context line that leaves the old counter alone.  C27
\* tells it from DiffContext.
DiffContextKeepingOld(line, st) ==
    IF st.oldLineNum > 0 \/ st.newLineNum > 0
    THEN [oldLineNum |-> st.oldLineNum,
          newLineNum |-> st.newLineNum + 1,
          lines |-> Append(st.lines,
                      [type |-> "context", content |-> Substring1(line),
                       oldLineNumber |-> st.oldLineNum,
                       newLineNumber |-> st.newLineNum])]
    ELSE st

\* parseDiff, the branch of a line that starts with a space or is empty
DiffContext(line, st) ==
    IF st.oldLineNum > 0 \/ st.newLineNum > 0
    THEN [oldLineNum |-> st.oldLineNum + 1,
          newLineNum |-> st.newLineNum + 1,
          lines |-> Append(st.lines,
                      [type |-> "context", content |-> Substring1(line),
                       oldLineNumber |-> st.oldLineNum,
                       newLineNumber |-> st.newLineNum])]
    ELSE st

\* parseDiff, the body of the for loop
ParseDiffLine(line, st) ==
    IF StartsWith(line, <<"@", "@">>) THEN DiffHeader(line, st)
    ELSE IF IsFileHeader(line) THEN st
    ELSE IF IsGitHeader(line) THEN st
    ELSE IF StartsWith(line, <<"+">>)
    THEN [st EXCEPT
            !.newLineNum = @ + 1,
            !.lines = Append(@, [type |-> "addition", content |-> Substring1(line),
                                 newLineNumber |-> st.newLineNum])]
    ELSE IF StartsWith(line, <<"-">>)
    THEN [st EXCEPT
            !.oldLineNum = @ + 1,
            !.lines = Append(@, [type |-> "deletion", content |-> Substring1(line),
                                 oldLineNumber |-> st.oldLineNum])]
    ELSE IF StartsWith(line, <<" ">>) \/ line = <<>> THEN DiffContext(line, st)
    ELSE st

\* parseDiff(diff): the loop over diff.split("\n"), from line i on
RECURSIVE ParseDiffLoop(_, _, _)
ParseDiffLoop(diff, i, st) ==
    IF i > Len(diff) THEN st.lines
    ELSE ParseDiffLoop(diff, i + 1, ParseDiffLine(diff[i], st))

parseDiff(diff) ==
    ParseDiffLoop(diff, 1, [oldLineNum |-> 0, newLineNum |-> 0, lines |-> <<>>])

(***************************************************************************)
(* The repository the program runs on: the answers of the version-control  *)
(* tool and of the file system.  Two commits, a current branch and one     *)
(* other branch, two paths.   The texts differ from target to target, so  *)
(* that the target a text was retrieved under can be read off the text.    *)
(***************************************************************************)
Hunk(old, new) ==
    <<"@", "@", " ", "-">> \o IntToStr(old) \o <<" ", "+">> \o IntToStr(new)
        \o <<" ", "@", "@">>

HunkCounts(old, oldCount, new, newCount) ==
    <<"@", "@", " ", "-">> \o IntToStr(old) \o <<",">> \o IntToStr(oldCount)
        \o <<" ", "+">> \o IntToStr(new) \o <<",">> \o IntToStr(newCount)
        \o <<" ", "@", "@">>

MetaOld == <<"-", "-", "-", " ", "a">>
MetaNew == <<"+", "+", "+", " ", "b">>

\* n lines, each the single character c
Fill(n, c) == [i \in 1..n |-> <<c>>]

\* git log
RepoCommits == <<"c1", "c2">>

\* git branch
RepoBranches ==
    << [name |-> "main", isCurrent |-> TRUE],
       [name |-> "f1", isCurrent |-> FALSE] >>

\* git status --porcelain -uall
RepoStatus ==
    << [staged |-> " ", unstaged |-> "M", path |-> "a", isDir |-> FALSE],
       [staged |-> "?", unstaged |-> "?", path |-> "b", isDir |-> FALSE],
       [staged |-> "?", unstaged |-> "?", path |-> "d/", isDir |-> TRUE] >>

\* git diff-tree --name-status <hash>, git diff --name-status <branch>...HEAD
RepoNameStatus(ref) ==
    CASE ref = "c1" -> << [code |-> "M", path |-> "a"], [code |-> "A", path |-> "b"] >>
      [] ref = "c2" -> << [code |-> "M", path |-> "a"] >>
      [] ref = "f1" -> << [code |-> "M", path |-> "a"] >>
      [] OTHER -> <<>>

\* the working tree
WorkFile(path) ==
    CASE path = "a" -> [Fill(9, "w") EXCEPT ![3] = <<"x", "x">>]
      [] path = "b" -> [Fill(3, "u") EXCEPT ![2] = <<"x">>]
      \* two lines, each ended by a newline: "u\nx\n"
      [] path = "n" -> << <<"u">>, <<"x">>, <<>> >>
      \* a line that begins with ++: "++i\nu"
      [] path = "p" -> << <<"+", "+", "i">>, <<"u">> >>
      [] OTHER -> EmptyText

\* the first parent of a commit: <hash>^
ParentRev(hash) == hash \o "^"

\* the blobs git show <rev>:<path> finds; rev is a hash, hash^, a branch
\* or HEAD.  A path the revision does not hold makes the call fail.
RepoBlobs ==
    << [rev |-> "c1", path |-> "a",
        text |-> [Fill(9, "1") EXCEPT ![3] = <<"x", "x">>, ![9] = <<"x">>]],
       [rev |-> "c1", path |-> "b", text |-> Fill(9, "3")],
       [rev |-> "c1^", path |-> "a", text |-> Fill(8, "0")],
       [rev |-> "c2", path |-> "a", text |-> [Fill(9, "2") EXCEPT ![2] = <<"x">>]],
       [rev |-> "c2", path |-> "b", text |-> Fill(9, "3")],
       [rev |-> "c2^", path |-> "a", text |-> Fill(9, "1")],
       [rev |-> "c2^", path |-> "b", text |-> Fill(9, "3")],
       [rev |-> "f1", path |-> "a", text |-> Fill(9, "4")],
       [rev |-> "f1", path |-> "b", text |-> Fill(4, "5")],
       [rev |-> "f2", path |-> "a", text |-> Fill(9, "7")],
       [rev |-> "f2", path |-> "b", text |-> Fill(3, "6")],
       [rev |-> "HEAD", path |-> "a", text |-> Fill(9, "7")] >>

GitShowExists(rev, path) ==
    \E i \in 1..Len(RepoBlobs) : RepoBlobs[i].rev = rev /\ RepoBlobs[i].path = path

GitShow(rev, path) ==
    RepoBlobs[CHOOSE i \in 1..Len(RepoBlobs) :
                  RepoBlobs[i].rev = rev /\ RepoBlobs[i].path = path].text

\* git diff <range> -- <path>; empty output for a path the range does not touch
GitDiff(range, path) ==
    CASE range = "c1" /\ path = "a" ->
            << MetaOld, MetaNew, Hunk(1, 1), <<"+", "1">>, <<" ", "1">>,
               Hunk(7, 8), <<"+", "1">>, <<"-", "0">>, <<>> >>
      [] range = "c1" /\ path = "b" ->
            << MetaOld, MetaNew, Hunk(7, 7), <<" ", "3">>, <<"+", "3">>, <<>> >>
      [] range = "c2" /\ path = "a" ->
            << MetaOld, MetaNew, Hunk(2, 2), <<"+", "x">>, <<>> >>
      [] range = "f1" /\ path = "a" ->
            << MetaOld, MetaNew, Hunk(8, 8), <<"+", "w">>, <<"+", "w">>, <<>> >>
      [] range = "f1" /\ path = "b" ->
            << MetaOld, MetaNew, HunkCounts(1, 4, 0, 0), <<"-", "5">>, <<"-", "5">>,
               <<"-", "5">>, <<"-", "5">>, <<>> >>
      [] range = "f2" /\ path = "b" ->
            << MetaOld, MetaNew, Hunk(2, 2), <<"-", "6">>, <<"+", "x">>, <<>> >>
      [] range = "unstaged" /\ path = "a" ->
            << MetaOld, MetaNew, Hunk(3, 3), <<"-", "7">>, <<"+", "x", "x">>, <<>> >>
      [] OTHER -> EmptyText

(***************************************************************************)
(* git.ts: listing and lazy loading.  out says which retrievals succeed:   *)
(* out.git for the calls of the version-control tool, out.read for the     *)
(* reads of working files.                                                 *)
(***************************************************************************)
Outcomes == [git : BOOLEAN, read : BOOLEAN]

AllOk == [git |-> TRUE, read |-> TRUE]

\* readFileContent(path): "" when the read fails
readFileContent(path, out) == IF out.read THEN WorkFile(path) ELSE EmptyText

\* Not the code: a listing entry that already carries the working file.
\* C9 tells it from NewFileChange.
NewFileChangeWithContent(path, status) ==
    [path |-> path, status |-> status, additions |-> 0, deletions |-> 0,
     diff |-> EmptyText, content |-> WorkFile(path), firstChangeLine |-> 0,
     changedLines |-> {}]

NewFileChange(path, status) ==
    [path |-> path, status |-> status, additions |-> 0, deletions |-> 0,
     diff |-> EmptyText, content |-> EmptyText, firstChangeLine |-> 0,
     changedLines |-> {}]

\* switch (statusCode?.[0]) of getCommitChanges / getBranchChanges
NameStatusOf(code) ==
    CASE code = "A" -> "added"
      [] code = "D" -> "deleted"
      [] code = "R" -> "renamed"
      [] OTHER -> "modified"

ListNameStatus(ref, out) ==
    IF ~out.git THEN <<>>
    ELSE [i \in 1..Len(RepoNameStatus(ref)) |->
            NewFileChange(RepoNameStatus(ref)[i].path,
                          NameStatusOf(RepoNameStatus(ref)[i].code))]

getCommitChanges(commitHash, out) == ListNameStatus(commitHash, out)

getBranchChanges(targetBranch, out) == ListNameStatus(targetBranch, out)

getCommitList(out) == IF out.git THEN RepoCommits ELSE <<>>

getBranchList(out) == IF out.git THEN RepoBranches ELSE <<>>

\* Not the code: a classification that looks for D before A.  C31 tells it
\* from DirtyStatusOf.
DirtyStatusOfDeletedFirst(staged, unstaged) ==
    IF staged = "D" \/ unstaged = "D" THEN "deleted"
    ELSE IF staged = "A" \/ unstaged = "A" THEN "added"
    ELSE IF staged = "R" \/ unstaged = "R" THEN "renamed"
    ELSE IF staged = "?" /\ unstaged = "?" THEN "untracked"
    ELSE "modified"

\* the status of a porcelain entry
DirtyStatusOf(staged, unstaged) ==
    IF staged = "A" \/ unstaged = "A" THEN "added"
    ELSE IF staged = "D" \/ unstaged = "D" THEN "deleted"
    ELSE IF staged = "R" \/ unstaged = "R" THEN "renamed"
    ELSE IF staged = "?" /\ unstaged = "?" THEN "untracked"
    ELSE "modified"

\* the diff the working-tree comparison shows for a path: staged || unstaged
DirtyDiff(path) ==
    IF Truthy(GitDiff("staged", path)) THEN GitDiff("staged", path)
    ELSE GitDiff("unstaged", path)

\* the FileChange getGitChanges builds for one status entry: the per-file
\* try block.  The per-file calls of the version-control tool are taken to
\* succeed when the status call did; a failed read gives empty content.
DirtyFileChange(path, status, out) ==
    LET base == NewFileChange(path, status)
        read == readFileContent(path, out)
        withStats(f) ==
            LET counted ==
                  IF Truthy(f.diff) /\ status # "untracked"
                  THEN [f EXCEPT !.additions = @ + CountAdditions(f.diff),
                                 !.deletions = @ + CountDeletions(f.diff)]
                  ELSE f
            IN  IF counted.changedLines # {}
                THEN [counted EXCEPT !.firstChangeLine = SetMin(counted.changedLines)]
                ELSE counted
    IN  IF status = "untracked"
        THEN IF Truthy(read)
             THEN withStats([base EXCEPT !.content = read,
                                         !.diff = generateUnifiedDiff(read),
                                         !.additions = Len(read),
                                         !.changedLines = 0..(Len(read) - 1)])
             ELSE withStats(base)
        ELSE IF status = "deleted"
        THEN IF ~GitShowExists("HEAD", path)
             THEN [base EXCEPT !.diff = GitDiff("HEAD", path)]
             ELSE withStats([base EXCEPT !.diff = GitDiff("HEAD", path),
                                         !.content = GitShow("HEAD", path),
                                         !.changedLines =
                                             0..(Len(GitShow("HEAD", path)) - 1)])
        ELSE withStats([base EXCEPT !.content = read,
                                    !.diff = DirtyDiff(path),
                                    !.changedLines =
                                        SeqToSet(parseChangedLines(DirtyDiff(path)))])

\* getGitChanges(): the status entries that are not directories.  The
\* status call itself is not caught: when it fails the call throws.
getGitChanges(out) ==
    LET entries == SelectSeq(RepoStatus, LAMBDA e : ~e.isDir)
    IN  [i \in 1..Len(entries) |->
            DirtyFileChange(entries[i].path,
                            DirtyStatusOf(entries[i].staged, entries[i].unstaged),
                            out)]

\* loadFileDetails(file, compareTarget)
loadFileDetails(file, compareTarget, out) ==
    LET path == file.path
        ref == compareTarget.ref
        dirty == compareTarget.type = "dirty"
        commit == compareTarget.type = "commit"
        \* the revision whose blob is shown, when one is
        showRev ==
            IF dirty THEN (IF file.status = "deleted" THEN "HEAD" ELSE Null)
            ELSE IF commit THEN (IF file.status # "deleted" THEN ref ELSE ParentRev(ref))
            ELSE (IF file.status = "deleted" THEN ref ELSE Null)
        callsGit == ~(dirty /\ file.status = "untracked")
        threw ==
            \/ callsGit /\ ~out.git
            \/ showRev # Null /\ ~GitShowExists(showRev, path)
        content ==
            IF showRev # Null THEN GitShow(showRev, path)
            ELSE readFileContent(path, out)
        diff ==
            IF dirty
            THEN (IF file.status = "untracked" THEN generateUnifiedDiff(content)
                  ELSE IF file.status = "deleted" THEN GitDiff("HEAD", path)
                  ELSE DirtyDiff(path))
            ELSE GitDiff(ref, path)
        changedLines == SeqToSet(parseChangedLines(diff))
    IN  IF threw THEN file
        ELSE [file EXCEPT
                !.diff = diff,
                !.content = content,
                !.additions = CountAdditions(diff),
                !.deletions = CountDeletions(diff),
                !.firstChangeLine =
                    IF changedLines # {} THEN SetMin(changedLines) ELSE 0,
                !.changedLines = changedLines]

(***************************************************************************)
(* app.tsx: the state.  One variable per signal of App, the closure        *)
(* variable lastSelectedFilePath, the operations in flight, and whether    *)
(* the renderer is still alive.                                            *)
(***************************************************************************)
VARIABLES
    mode, viewState, files, selectedIndex, focusedPanel, loading, error,
    scrollOffset, showHelp,
    searchMode, searchQuery, searchActive, searchMatches, currentMatchIndex,
    commits, listSelectedIndex, selectedCommit,
    branches, selectedBranch, currentBranch,
    lastSelectedFilePath, loadingFile, currentChunkIndex,
    running,        \* FALSE once renderer.destroy() was called
    pendingLists,   \* bag of the listing calls awaited by the load helpers
    pendingLoads,   \* bag of the loadFileDetails calls not yet resolved
    emptyLoads,     \* the (path, target) whose load resolved without content
    lastEv,         \* the event handled by the last step
    fnCall,         \* a direct call of an exported function of git.ts
    fnResult        \* what that call returned, once it is done

vars ==
    << mode, viewState, files, selectedIndex, focusedPanel, loading, error,
       scrollOffset, showHelp,
       searchMode, searchQuery, searchActive, searchMatches, currentMatchIndex,
       commits, listSelectedIndex, selectedCommit,
       branches, selectedBranch, currentBranch,
       lastSelectedFilePath, loadingFile, currentChunkIndex,
       running, pendingLists, pendingLoads, emptyLoads, lastEv, fnCall,
       fnResult >>

\* the terminal is TermHeight rows high
TermHeight == 11

\* at most MaxLists listing calls and MaxLoads detail loads in flight
MaxLists == 1

MaxLoads == 2

\* at most MaxQueryLen characters are typed into a search query
MaxQueryLen == 2

\* the characters typed into a search query
TypeChars == {"x", "q"}

contextLines == 5

\* the state as one record, so that a handler is a composition of setters
Cur ==
    [mode |-> mode, viewState |-> viewState, files |-> files,
     selectedIndex |-> selectedIndex, focusedPanel |-> focusedPanel,
     loading |-> loading, error |-> error, scrollOffset |-> scrollOffset,
     showHelp |-> showHelp, searchMode |-> searchMode,
     searchQuery |-> searchQuery, searchActive |-> searchActive,
     searchMatches |-> searchMatches, currentMatchIndex |-> currentMatchIndex,
     commits |-> commits, listSelectedIndex |-> listSelectedIndex,
     selectedCommit |-> selectedCommit, branches |-> branches,
     selectedBranch |-> selectedBranch, currentBranch |-> currentBranch,
     lastSelectedFilePath |-> lastSelectedFilePath, loadingFile |-> loadingFile,
     currentChunkIndex |-> currentChunkIndex, running |-> running,
     pendingLists |-> pendingLists, pendingLoads |-> pendingLoads,
     emptyLoads |-> emptyLoads]

\* the signals as created by App
InitState ==
    [mode |-> "dirty", viewState |-> "files", files |-> <<>>,
     selectedIndex |-> 0, focusedPanel |-> "files",
     loading |-> TRUE, error |-> Null, scrollOffset |-> 0,
     showHelp |-> FALSE, searchMode |-> FALSE,
     searchQuery |-> <<>>, searchActive |-> FALSE,
     searchMatches |-> <<>>, currentMatchIndex |-> 0,
     commits |-> <<>>, listSelectedIndex |-> 0,
     selectedCommit |-> Null, branches |-> <<>>,
     selectedBranch |-> Null, currentBranch |-> Null,
     lastSelectedFilePath |-> Null, loadingFile |-> FALSE,
     currentChunkIndex |-> -1, running |-> TRUE,
     pendingLists |-> EmptyBag, pendingLoads |-> EmptyBag,
     emptyLoads |-> {}]

\* const visibleHeight = createMemo(() => dimensions().height - 4)
visibleHeight == TermHeight - 4

\* selectedFile = files()[selectedIndex()] ?? null
HasSelectedFile(s) == s.selectedIndex >= 0 /\ s.selectedIndex < Len(s.files)

selectedFile(s) == s.files[s.selectedIndex + 1]

\* selectableBranches = branches().filter(b => !b.isCurrent)
selectableBranches(s) == SelectSeq(s.branches, LAMBDA b : ~b.isCurrent)

clearSearch(s) ==
    [s EXCEPT !.searchMode = FALSE, !.searchQuery = <<>>,
              !.searchActive = FALSE, !.searchMatches = <<>>,
              !.currentMatchIndex = 0]

\* the compareTarget the effect passes to loadFileDetails
CompareTarget(s) ==
    IF s.mode = "commit" /\ s.selectedCommit # Null
    THEN [type |-> "commit", ref |-> s.selectedCommit]
    ELSE IF s.mode = "branch" /\ s.selectedBranch # Null
    THEN [type |-> "branch", ref |-> s.selectedBranch]
    ELSE [type |-> "dirty", ref |-> Null]

\* the body of the createEffect that loads the selected file lazily
FileEffect(s) ==
    IF /\ HasSelectedFile(s)
       /\ selectedFile(s).path # s.lastSelectedFilePath
       /\ s.viewState = "files"
    THEN LET file == selectedFile(s)
             s1 == clearSearch([s EXCEPT !.lastSelectedFilePath = file.path])
         IN  IF ~Truthy(file.content) /\ s.mode \in {"commit", "branch"}
             THEN [s1 EXCEPT
                     !.loadingFile = TRUE,
                     !.pendingLoads =
                         @ (+) SetToBag({[file |-> file, target |-> CompareTarget(s)]})]
             ELSE [s1 EXCEPT
                     !.scrollOffset = Max(0, file.firstChangeLine - contextLines),
                     !.currentChunkIndex = 0]
    ELSE s

\* The effect reads selectedFile(), mode() and viewState().  No handler
\* batches its writes, so the effect runs after each write of files,
\* selectedIndex, mode or viewState, on the state as written so far.
setMode(s, v) == FileEffect([s EXCEPT !.mode = v])

setViewState(s, v) == FileEffect([s EXCEPT !.viewState = v])

setFiles(s, v) == FileEffect([s EXCEPT !.files = v])

setSelectedIndex(s, v) == FileEffect([s EXCEPT !.selectedIndex = v])

\* Not the code: a load that leaves the scroll offset where it was.  C14
\* tells it from LoadResolved.
LoadResolvedKeepingScroll(s, loadedFile) ==
    LET s1 == setFiles(s, [i \in 1..Len(s.files) |->
                              IF s.files[i].path = loadedFile.path
                              THEN loadedFile ELSE s.files[i]])
    IN  [s1 EXCEPT !.loadingFile = FALSE, !.currentChunkIndex = 0]

\* Not the code: a load that puts the chunk index before the first chunk.
\* C15 tells it from LoadResolved.
LoadResolvedOffChunk(s, loadedFile) ==
    LET s1 == setFiles(s, [i \in 1..Len(s.files) |->
                              IF s.files[i].path = loadedFile.path
                              THEN loadedFile ELSE s.files[i]])
    IN  [s1 EXCEPT
           !.loadingFile = FALSE,
           !.scrollOffset = Max(0, loadedFile.firstChangeLine - contextLines),
           !.currentChunkIndex = -1]

\* the .then of loadFileDetails(file, compareTarget) in the effect
LoadResolved(s, loadedFile) ==
    LET s1 == setFiles(s, [i \in 1..Len(s.files) |->
                              IF s.files[i].path = loadedFile.path
                              THEN loadedFile ELSE s.files[i]])
    IN  [s1 EXCEPT
           !.loadingFile = FALSE,
           !.scrollOffset = Max(0, loadedFile.firstChangeLine - contextLines),
           !.currentChunkIndex = 0]

(***************************************************************************)
(* app.tsx: the load helpers.  Each runs up to its await when called and   *)
(* continues when the listing call resolves.                               *)
(***************************************************************************)
StartListing(s, op, ref) ==
    [s EXCEPT !.loading = TRUE, !.error = Null,
              !.pendingLists = @ (+) SetToBag({[op |-> op, ref |-> ref]})]

loadDirtyChanges(s) == StartListing(s, "dirty", Null)

loadCommits(s) == StartListing(s, "commits", Null)

loadBranches(s) == StartListing(s, "branches", Null)

loadCommitChanges(s, commit) == StartListing(s, "commitChanges", commit)

loadBranchChanges(s, branch) == StartListing(s, "branchChanges", branch)

\* the continuation of a load helper after its await: try / catch / finally
\* Not the code: load helpers without the finally: a failed listing leaves
\* loading set.  C13 tells it from ListingResolved.
ListingResolvedWithoutFinally(s, p, out) ==
    LET s1 ==
          CASE p.op = "dirty" ->
                 IF out.git THEN setFiles(s, getGitChanges(out))
                 ELSE [s EXCEPT !.error = "Failed to load git changes"]
            [] p.op = "commits" -> [s EXCEPT !.commits = getCommitList(out)]
            [] p.op = "branches" ->
                 [s EXCEPT !.branches = getBranchList(out),
                           !.currentBranch = IF out.git THEN "main" ELSE Null]
            [] p.op = "commitChanges" -> setFiles(s, getCommitChanges(p.ref, out))
            [] p.op = "branchChanges" -> setFiles(s, getBranchChanges(p.ref, out))
    IN  IF out.git THEN [s1 EXCEPT !.loading = FALSE] ELSE s1

ListingResolved(s, p, out) ==
    LET s1 ==
          CASE p.op = "dirty" ->
                 IF out.git THEN setFiles(s, getGitChanges(out))
                 ELSE [s EXCEPT !.error = "Failed to load git changes"]
            [] p.op = "commits" -> [s EXCEPT !.commits = getCommitList(out)]
            [] p.op = "branches" ->
                 [s EXCEPT !.branches = getBranchList(out),
                           !.currentBranch = IF out.git THEN "main" ELSE Null]
            [] p.op = "commitChanges" -> setFiles(s, getCommitChanges(p.ref, out))
            [] p.op = "branchChanges" -> setFiles(s, getBranchChanges(p.ref, out))
    IN  [s1 EXCEPT !.loading = FALSE]

(***************************************************************************)
(* app.tsx: scrolling, chunks and search                                   *)
(***************************************************************************)
getMaxScroll(s) ==
    IF ~HasSelectedFile(s) THEN 0
    ELSE Max(0, Len(selectedFile(s).content) - visibleHeight)

\* the elements of a finite set of integers in ascending order
RECURSIVE SortSet(_)
SortSet(S) == IF S = {} THEN <<>> ELSE <<SetMin(S)>> \o SortSet(S \ {SetMin(S)})

\* Not the code: a loop that starts a chunk at every line that does not
\* follow its predecessor by exactly 2.  C18 tells it from ChunkLoop.
RECURSIVE ChunkLoopWideGap(_, _, _)
ChunkLoopWideGap(sortedLines, i, chunks) ==
    IF i > Len(sortedLines) THEN chunks
    ELSE ChunkLoopWideGap(sortedLines, i + 1,
                          IF sortedLines[i] - sortedLines[i - 1] > 2
                          THEN Append(chunks, sortedLines[i]) ELSE chunks)

\* the loop of getChunkPositions over sortedLines, from index i on
RECURSIVE ChunkLoop(_, _, _)
ChunkLoop(sortedLines, i, chunks) ==
    IF i > Len(sortedLines) THEN chunks
    ELSE ChunkLoop(sortedLines, i + 1,
                   IF sortedLines[i] - sortedLines[i - 1] > 1
                   THEN Append(chunks, sortedLines[i]) ELSE chunks)

ChunksOf(changedLines) ==
    IF changedLines = {} THEN <<>>
    ELSE ChunkLoop(SortSet(changedLines), 2, <<SortSet(changedLines)[1]>>)

getChunkPositions(s) ==
    IF ~HasSelectedFile(s) THEN <<>> ELSE ChunksOf(selectedFile(s).changedLines)

chunkCount(s) == Len(getChunkPositions(s))

\* index is 0-based; chunks[index]! of an index outside the list is
\* undefined, and Math.max(0, undefined - 5) is NaN
jumpToChunk(s, index) ==
    LET chunks == getChunkPositions(s) IN
    IF Len(chunks) = 0 THEN s
    ELSE IF index < 0 \/ index >= Len(chunks)
    THEN [s EXCEPT !.scrollOffset = "NaN", !.currentChunkIndex = index]
    ELSE [s EXCEPT
            !.scrollOffset = Min(Max(0, chunks[index + 1] - contextLines), getMaxScroll(s)),
            !.currentChunkIndex = index]

\* Not the code: a next-chunk that stays on the last chunk.  C19 tells it
\* from jumpToNextChunk.
jumpToNextChunkClamped(s) ==
    LET chunks == getChunkPositions(s)
        currentIdx == s.currentChunkIndex
    IN  IF Len(chunks) = 0 THEN s
        ELSE IF currentIdx < 0 THEN jumpToChunk(s, 0)
        ELSE IF currentIdx >= Len(chunks) - 1 THEN jumpToChunk(s, Len(chunks) - 1)
        ELSE jumpToChunk(s, currentIdx + 1)

jumpToNextChunk(s) ==
    LET chunks == getChunkPositions(s)
        currentIdx == s.currentChunkIndex
    IN  IF Len(chunks) = 0 THEN s
        ELSE IF currentIdx < 0 THEN jumpToChunk(s, 0)
        ELSE IF currentIdx >= Len(chunks) - 1 THEN jumpToChunk(s, 0)
        ELSE jumpToChunk(s, currentIdx + 1)

\* Not the code: a previous-chunk that stays on the first chunk.  C20 tells
\* it from jumpToPrevChunk.
jumpToPrevChunkClamped(s) ==
    LET chunks == getChunkPositions(s)
        currentIdx == s.currentChunkIndex
    IN  IF Len(chunks) = 0 THEN s
        ELSE IF currentIdx <= 0 THEN jumpToChunk(s, 0)
        ELSE jumpToChunk(s, currentIdx - 1)

jumpToPrevChunk(s) ==
    LET chunks == getChunkPositions(s)
        currentIdx == s.currentChunkIndex
    IN  IF Len(chunks) = 0 THEN s
        ELSE IF currentIdx <= 0 THEN jumpToChunk(s, Len(chunks) - 1)
        ELSE jumpToChunk(s, currentIdx - 1)

\* line.indexOf(query, startIdx), 0-based, -1 when there is none
IndexOf(line, query, startIdx) ==
    LET hits == {i \in startIdx..Len(line) : HasAt(line, i + 1, query)}
    IN  IF hits = {} THEN -1 ELSE SetMin(hits)

\* Not the code: a scan that resumes after the end of a hit, so that no hit
\* overlaps an earlier one.  C22 tells it from ScanLine.
RECURSIVE ScanLineSkippingHit(_, _, _, _)
ScanLineSkippingHit(line, query, lineIdx, startIdx) ==
    LET foundIdx == IndexOf(line, query, startIdx) IN
    IF foundIdx = -1 THEN <<>>
    ELSE <<[line |-> lineIdx, start |-> foundIdx, length |-> Len(query)]>>
             \o ScanLineSkippingHit(line, query, lineIdx, foundIdx + Len(query))

\* the while (true) loop of executeSearch on one line
RECURSIVE ScanLine(_, _, _, _)
ScanLine(line, query, lineIdx, startIdx) ==
    LET foundIdx == IndexOf(line, query, startIdx) IN
    IF foundIdx = -1 THEN <<>>
    ELSE <<[line |-> lineIdx, start |-> foundIdx, length |-> Len(query)]>>
             \o ScanLine(line, query, lineIdx, foundIdx + 1)

\* the for loop of executeSearch over the lines, from (0-based) lineIdx on
RECURSIVE ScanLines(_, _, _)
ScanLines(lines, query, lineIdx) ==
    IF lineIdx >= Len(lines) THEN <<>>
    ELSE ScanLine(lines[lineIdx + 1], query, lineIdx, 0)
             \o ScanLines(lines, query, lineIdx + 1)

\* Not the code: a jump that does not clamp to the maximum scroll offset.
\* C24 tells it from ScrollToMatch.
ScrollToMatchUnclamped(s, match) ==
    [s EXCEPT !.scrollOffset = Max(0, match.line - contextLines)]

\* the scroll of a jump to a search match
ScrollToMatch(s, match) ==
    [s EXCEPT !.scrollOffset = Min(Max(0, match.line - contextLines), getMaxScroll(s))]

executeSearch(s) ==
    IF s.searchQuery = <<>> \/ ~HasSelectedFile(s)
    THEN [s EXCEPT !.searchMatches = <<>>, !.searchActive = FALSE]
    ELSE LET matches == ScanLines(selectedFile(s).content, s.searchQuery, 0)
             s1 == [s EXCEPT !.searchMatches = matches,
                             !.currentMatchIndex = 0,
                             !.searchActive = TRUE]
         IN  IF Len(matches) > 0 THEN ScrollToMatch(s1, matches[1]) ELSE s1

\* Not the code: a next match that stops at the last match.  C21 tells it
\* from jumpToNextMatch.
jumpToNextMatchClamped(s) ==
    LET matches == s.searchMatches
        nextIdx == Min(s.currentMatchIndex + 1, Len(matches) - 1)
    IN  IF Len(matches) = 0 THEN s
        ELSE ScrollToMatch([s EXCEPT !.currentMatchIndex = nextIdx], matches[nextIdx + 1])

jumpToNextMatch(s) ==
    LET matches == s.searchMatches
        nextIdx == (s.currentMatchIndex + 1) % Len(matches)
    IN  IF Len(matches) = 0 THEN s
        ELSE ScrollToMatch([s EXCEPT !.currentMatchIndex = nextIdx], matches[nextIdx + 1])

jumpToPrevMatch(s) ==
    LET matches == s.searchMatches
        prevIdx == IF s.currentMatchIndex <= 0 THEN Len(matches) - 1
                   ELSE s.currentMatchIndex - 1
    IN  IF Len(matches) = 0 THEN s
        ELSE ScrollToMatch([s EXCEPT !.currentMatchIndex = prevIdx], matches[prevIdx + 1])

\* handleSidebarScroll: direction is "up" or "down"
handleSidebarScroll(s, direction) ==
    LET delta == IF direction = "up" THEN -4 ELSE 4 IN
    IF s.viewState = "list"
    THEN IF s.mode = "commit"
         THEN [s EXCEPT !.listSelectedIndex =
                   Max(0, Min(@ + delta, Len(s.commits) - 1))]
         ELSE IF s.mode = "branch"
         THEN [s EXCEPT !.listSelectedIndex =
                   Max(0, Min(@ + delta, Len(selectableBranches(s)) - 1))]
         ELSE s
    ELSE setSelectedIndex(s, Max(0, Min(s.selectedIndex + delta, Len(s.files) - 1)))

\* handleDiffScroll
handleDiffScroll(s, direction) ==
    LET delta == IF direction = "up" THEN -6 ELSE 6 IN
    [s EXCEPT !.scrollOffset = Max(0, Min(@ + delta, getMaxScroll(s)))]

(***************************************************************************)
(* app.tsx: the keyboard handler.  A key event has a name, the ctrl and    *)
(* shift modifiers and, for a key that types one character, that           *)
(* character as its sequence.                                              *)
(***************************************************************************)
Plain(name) == [name |-> name, ctrl |-> FALSE, shift |-> FALSE, printable |-> TRUE]

Shift(name) == [name |-> name, ctrl |-> FALSE, shift |-> TRUE, printable |-> TRUE]

Ctrl(name) == [name |-> name, ctrl |-> TRUE, shift |-> FALSE, printable |-> FALSE]

Special(name) == [name |-> name, ctrl |-> FALSE, shift |-> FALSE, printable |-> FALSE]

Keys ==
    {Plain(n) : n \in {"q", "?", "m", "h", "l", "j", "k", "g", "n", "r", "e", "/"}
                        \cup TypeChars}
    \cup {Shift("g"), Shift("n")}
    \cup {Ctrl(n) : n \in {"c", "d", "u", "f", "b", "up", "down"}}
    \cup {Special(n) : n \in {"escape", "return", "backspace", "tab", "up", "down"}}

\* if (nextMode === "dirty") loadDirtyChanges() else ...
LoadMode(s, m) ==
    IF m = "dirty" THEN loadDirtyChanges(s)
    ELSE IF m = "commit" THEN loadCommits(s)
    ELSE loadBranches(s)

\* Not the code: a mode switch that leaves the cursor of the list where it
\* was.  C6 tells it from SwitchMode.
SwitchModeKeepingCursor(s) ==
    LET nextMode == IF s.mode = "dirty" THEN "commit"
                    ELSE IF s.mode = "commit" THEN "branch"
                    ELSE "dirty"
        s1 == setMode(s, nextMode)
        s2 == setViewState(s1, IF nextMode = "dirty" THEN "files" ELSE "list")
        s3 == [s2 EXCEPT !.focusedPanel = "files"]
        s4 == setSelectedIndex(s3, 0)
        s5 == [s4 EXCEPT !.scrollOffset = 0, !.selectedCommit = Null,
                         !.selectedBranch = Null]
        s6 == setFiles(s5, <<>>)
    IN  LoadMode(s6, nextMode)

\* Not the code: a mode switch that keeps the commit and the branch that
\* were entered.  C32 tells it from SwitchMode.
SwitchModeKeepingTarget(s) ==
    LET nextMode == IF s.mode = "dirty" THEN "commit"
                    ELSE IF s.mode = "commit" THEN "branch"
                    ELSE "dirty"
        s1 == setMode(s, nextMode)
        s2 == setViewState(s1, IF nextMode = "dirty" THEN "files" ELSE "list")
        s3 == [s2 EXCEPT !.focusedPanel = "files", !.listSelectedIndex = 0]
        s4 == setSelectedIndex(s3, 0)
        s5 == [s4 EXCEPT !.scrollOffset = 0]
        s6 == setFiles(s5, <<>>)
    IN  LoadMode(s6, nextMode)

\* Not the code: a mode switch that leaves the focus where it was.  C35
\* tells it from SwitchMode.
SwitchModeKeepingFocus(s) ==
    LET nextMode == IF s.mode = "dirty" THEN "commit"
                    ELSE IF s.mode = "commit" THEN "branch"
                    ELSE "dirty"
        s1 == setMode(s, nextMode)
        s2 == setViewState(s1, IF nextMode = "dirty" THEN "files" ELSE "list")
        s3 == [s2 EXCEPT !.listSelectedIndex = 0]
        s4 == setSelectedIndex(s3, 0)
        s5 == [s4 EXCEPT !.scrollOffset = 0, !.selectedCommit = Null,
                         !.selectedBranch = Null]
        s6 == setFiles(s5, <<>>)
    IN  LoadMode(s6, nextMode)

\* Mode switching with 'm'
SwitchMode(s) ==
    LET nextMode == IF s.mode = "dirty" THEN "commit"
                    ELSE IF s.mode = "commit" THEN "branch"
                    ELSE "dirty"
        s1 == setMode(s, nextMode)
        s2 == setViewState(s1, IF nextMode = "dirty" THEN "files" ELSE "list")
        s3 == [s2 EXCEPT !.focusedPanel = "files", !.listSelectedIndex = 0]
        s4 == setSelectedIndex(s3, 0)
        s5 == [s4 EXCEPT !.scrollOffset = 0, !.selectedCommit = Null,
                         !.selectedBranch = Null]
        s6 == setFiles(s5, <<>>)
    IN  LoadMode(s6, nextMode)

\* Not the code: a back navigation that leaves the files view before it
\* takes the focus back from the diff.  C5 tells it from BackNavigation.
BackNavigationViewFirst(s) ==
    IF s.viewState = "files" /\ s.mode # "dirty"
    THEN LET s1 == setViewState(s, "list")
             s2 == [s1 EXCEPT !.selectedCommit = Null, !.selectedBranch = Null]
             s3 == setFiles(s2, <<>>)
             s4 == setSelectedIndex(s3, 0)
         IN  [s4 EXCEPT !.scrollOffset = 0]
    ELSE IF s.focusedPanel = "diff" THEN [s EXCEPT !.focusedPanel = "files"]
    ELSE s

\* Escape - hierarchical back navigation
BackNavigation(s) ==
    IF s.focusedPanel = "diff" THEN [s EXCEPT !.focusedPanel = "files"]
    ELSE IF s.viewState = "files" /\ s.mode # "dirty"
    THEN LET s1 == setViewState(s, "list")
             s2 == [s1 EXCEPT !.selectedCommit = Null, !.selectedBranch = Null]
             s3 == setFiles(s2, <<>>)
             s4 == setSelectedIndex(s3, 0)
         IN  [s4 EXCEPT !.scrollOffset = 0]
    ELSE s

\* Not the code: an Enter that opens the files view without listing the
\* files of the entry.  C8 tells it from EnterTarget.
EnterTargetWithoutListing(s, isCommit, entry) ==
    LET s1 == IF isCommit THEN [s EXCEPT !.selectedCommit = entry]
              ELSE [s EXCEPT !.selectedBranch = entry]
        s2 == setViewState(s1, "files")
        s3 == [s2 EXCEPT !.focusedPanel = "files"]
        s4 == setSelectedIndex(s3, 0)
    IN  [s4 EXCEPT !.scrollOffset = 0]

\* Enter in list view on a commit or a branch
EnterTarget(s, isCommit, entry) ==
    LET s1 == IF isCommit THEN [s EXCEPT !.selectedCommit = entry]
              ELSE [s EXCEPT !.selectedBranch = entry]
        s2 == setViewState(s1, "files")
        s3 == [s2 EXCEPT !.focusedPanel = "files"]
        s4 == setSelectedIndex(s3, 0)
        s5 == [s4 EXCEPT !.scrollOffset = 0]
    IN  IF isCommit THEN loadCommitChanges(s5, entry) ELSE loadBranchChanges(s5, entry)

\* Enter key handling
EnterKey(s) ==
    IF s.viewState = "list"
    THEN IF s.mode = "commit"
         THEN IF s.listSelectedIndex >= 0 /\ s.listSelectedIndex < Len(s.commits)
              THEN EnterTarget(s, TRUE, s.commits[s.listSelectedIndex + 1])
              ELSE s
         ELSE IF s.mode = "branch"
         THEN IF /\ s.listSelectedIndex >= 0
                 /\ s.listSelectedIndex < Len(selectableBranches(s))
              THEN EnterTarget(s, FALSE,
                               selectableBranches(s)[s.listSelectedIndex + 1].name)
              ELSE s
         ELSE s
    ELSE IF s.focusedPanel = "files" /\ HasSelectedFile(s)
    THEN [s EXCEPT !.focusedPanel = "diff"]
    ELSE s

\* the length of the list shown in list view
ListLength(s) ==
    IF s.mode = "commit" THEN Len(s.commits) ELSE Len(selectableBranches(s))

\* Navigation with j/k, g/G
MoveDown(s) ==
    IF s.viewState = "list"
    THEN IF s.mode \in {"commit", "branch"}
         THEN [s EXCEPT !.listSelectedIndex = Min(@ + 1, ListLength(s) - 1)]
         ELSE s
    ELSE IF s.focusedPanel = "files"
    THEN setSelectedIndex(s, Min(s.selectedIndex + 1, Len(s.files) - 1))
    ELSE [s EXCEPT !.scrollOffset = Min(@ + 1, getMaxScroll(s))]

MoveUp(s) ==
    IF s.viewState = "list"
    THEN [s EXCEPT !.listSelectedIndex = Max(@ - 1, 0)]
    ELSE IF s.focusedPanel = "files"
    THEN setSelectedIndex(s, Max(s.selectedIndex - 1, 0))
    ELSE [s EXCEPT !.scrollOffset = Max(@ - 1, 0)]

JumpTop(s) ==
    IF s.viewState = "list" THEN [s EXCEPT !.listSelectedIndex = 0]
    ELSE IF s.focusedPanel = "files" THEN setSelectedIndex(s, 0)
    ELSE [s EXCEPT !.scrollOffset = 0]

JumpBottom(s) ==
    IF s.viewState = "list"
    THEN IF s.mode \in {"commit", "branch"}
         THEN [s EXCEPT !.listSelectedIndex = ListLength(s) - 1]
         ELSE s
    ELSE IF s.focusedPanel = "files"
    THEN setSelectedIndex(s, Len(s.files) - 1)
    ELSE [s EXCEPT !.scrollOffset = getMaxScroll(s)]

\* Refresh with 'r'
Refresh(s) ==
    IF s.mode = "dirty" THEN loadDirtyChanges(s)
    ELSE IF s.mode = "commit"
    THEN IF s.viewState = "list" THEN loadCommits(s)
         ELSE IF s.selectedCommit # Null THEN loadCommitChanges(s, s.selectedCommit)
         ELSE s
    ELSE IF s.viewState = "list" THEN loadBranches(s)
         ELSE IF s.selectedBranch # Null THEN loadBranchChanges(s, s.selectedBranch)
         ELSE s

\* the refresh after the editor opened with 'e' has returned
RefreshAfterEdit(s) ==
    IF s.mode = "dirty" THEN loadDirtyChanges(s)
    ELSE IF s.mode = "commit" /\ s.selectedCommit # Null
    THEN loadCommitChanges(s, s.selectedCommit)
    ELSE IF s.mode = "branch" /\ s.selectedBranch # Null
    THEN loadBranchChanges(s, s.selectedBranch)
    ELSE s

\* Search mode input handling
SearchInput(s, key) ==
    IF key.name = "escape" THEN clearSearch(s)
    ELSE IF key.name = "return" THEN executeSearch([s EXCEPT !.searchMode = FALSE])
    ELSE IF key.name = "backspace"
    THEN [s EXCEPT !.searchQuery = SubSeq(@, 1, Len(@) - 1)]
    ELSE IF key.printable /\ ~key.ctrl
    THEN [s EXCEPT !.searchQuery = Append(@, key.name)]
    ELSE s

\* Global diff scroll controls, for viewState "files" with a selected file
DiffControls(s, key) ==
    LET halfPage == visibleHeight \div 2
        fullPage == visibleHeight
        maxScroll == getMaxScroll(s)
    IN  IF key.name = "/"
        THEN [s EXCEPT !.searchMode = TRUE, !.searchQuery = <<>>, !.searchActive = FALSE]
        ELSE IF key.name = "n" /\ ~key.shift
        THEN IF s.searchActive /\ Len(s.searchMatches) > 0
             THEN jumpToNextMatch(s) ELSE jumpToNextChunk(s)
        ELSE IF key.name = "n" /\ key.shift
        THEN IF s.searchActive /\ Len(s.searchMatches) > 0
             THEN jumpToPrevMatch(s) ELSE jumpToPrevChunk(s)
        ELSE IF key.ctrl /\ key.name = "d"
        THEN [s EXCEPT !.scrollOffset = Min(@ + halfPage, maxScroll)]
        ELSE IF key.ctrl /\ key.name = "u"
        THEN [s EXCEPT !.scrollOffset = Max(@ - halfPage, 0)]
        ELSE IF key.ctrl /\ key.name = "f"
        THEN [s EXCEPT !.scrollOffset = Min(@ + fullPage, maxScroll)]
        ELSE IF key.ctrl /\ key.name = "b"
        THEN [s EXCEPT !.scrollOffset = Max(@ - fullPage, 0)]
        ELSE s

IsDiffControl(key) ==
    \/ key.name \in {"/", "n"}
    \/ key.ctrl /\ key.name \in {"d", "u", "f", "b"}

\* Not the code: a q that quits while a query is being typed too.  C34
\* tells it from IsQuit.
IsQuitAlways(s, key) == (key.ctrl /\ key.name = "c") \/ key.name = "q"

\* Quit with q or Ctrl+c
IsQuit(s, key) == (key.ctrl /\ key.name = "c") \/ (key.name = "q" /\ ~s.searchMode)

\* the callback of useKeyboard, in the order of its tests
useKeyboard(s, key) ==
    IF IsQuit(s, key)
    THEN [s EXCEPT !.running = FALSE]
    ELSE IF s.searchMode THEN SearchInput(s, key)
    ELSE IF key.name = "?" THEN [s EXCEPT !.showHelp = ~@]
    ELSE IF key.name = "escape" /\ s.showHelp THEN [s EXCEPT !.showHelp = FALSE]
    ELSE IF s.showHelp THEN s
    ELSE IF key.name = "m" THEN SwitchMode(s)
    ELSE IF key.name = "escape" THEN BackNavigation(s)
    ELSE IF key.name = "tab" /\ s.viewState = "files"
    THEN [s EXCEPT !.focusedPanel = IF @ = "files" THEN "diff" ELSE "files"]
    ELSE IF key.name = "return" THEN EnterKey(s)
    ELSE IF s.viewState = "files" /\ key.name = "h" /\ s.focusedPanel = "diff"
    THEN [s EXCEPT !.focusedPanel = "files"]
    ELSE IF s.viewState = "files" /\ key.name = "l" /\ s.focusedPanel = "files"
    THEN [s EXCEPT !.focusedPanel = "diff"]
    ELSE IF key.name \in {"j", "down"} THEN MoveDown(s)
    ELSE IF key.name \in {"k", "up"} THEN MoveUp(s)
    ELSE IF key.name = "g" /\ ~key.shift THEN JumpTop(s)
    ELSE IF key.name = "g" /\ key.shift THEN JumpBottom(s)
    ELSE IF s.viewState = "files" /\ HasSelectedFile(s) /\ IsDiffControl(key)
    THEN DiffControls(s, key)
    ELSE IF key.name = "r" THEN Refresh(s)
    ELSE IF key.name = "e" /\ s.viewState = "files" /\ HasSelectedFile(s)
    THEN RefreshAfterEdit(s)
    ELSE s

(***************************************************************************)
(* The state machine                                                       *)
(***************************************************************************)
\* lastEv.kind is "init", "key", "mouse", "listing" or "load"; name is the
\* key pressed, when it is one of RecordedKeys, or the listing resolved
Event(kind, name) == [kind |-> kind, name |-> name]

RecordedKeys == {"m", "escape", "return", "r", "q", "c"}

KeyEvent(key) ==
    Event("key", IF key.name \in RecordedKeys THEN key.name ELSE "other")

Step(n, ev) ==
    /\ mode' = n.mode
    /\ viewState' = n.viewState
    /\ files' = n.files
    /\ selectedIndex' = n.selectedIndex
    /\ focusedPanel' = n.focusedPanel
    /\ loading' = n.loading
    /\ error' = n.error
    /\ scrollOffset' = n.scrollOffset
    /\ showHelp' = n.showHelp
    /\ searchMode' = n.searchMode
    /\ searchQuery' = n.searchQuery
    /\ searchActive' = n.searchActive
    /\ searchMatches' = n.searchMatches
    /\ currentMatchIndex' = n.currentMatchIndex
    /\ commits' = n.commits
    /\ listSelectedIndex' = n.listSelectedIndex
    /\ selectedCommit' = n.selectedCommit
    /\ branches' = n.branches
    /\ selectedBranch' = n.selectedBranch
    /\ currentBranch' = n.currentBranch
    /\ lastSelectedFilePath' = n.lastSelectedFilePath
    /\ loadingFile' = n.loadingFile
    /\ currentChunkIndex' = n.currentChunkIndex
    /\ running' = n.running
    /\ pendingLists' = n.pendingLists
    /\ pendingLoads' = n.pendingLoads
    /\ emptyLoads' = n.emptyLoads
    /\ lastEv' = ev
    /\ UNCHANGED << fnCall, fnResult >>

\* the state n as the state of the application before any step
AppIs(n, ev) ==
    /\ mode = n.mode
    /\ viewState = n.viewState
    /\ files = n.files
    /\ selectedIndex = n.selectedIndex
    /\ focusedPanel = n.focusedPanel
    /\ loading = n.loading
    /\ error = n.error
    /\ scrollOffset = n.scrollOffset
    /\ showHelp = n.showHelp
    /\ searchMode = n.searchMode
    /\ searchQuery = n.searchQuery
    /\ searchActive = n.searchActive
    /\ searchMatches = n.searchMatches
    /\ currentMatchIndex = n.currentMatchIndex
    /\ commits = n.commits
    /\ listSelectedIndex = n.listSelectedIndex
    /\ selectedCommit = n.selectedCommit
    /\ branches = n.branches
    /\ selectedBranch = n.selectedBranch
    /\ currentBranch = n.currentBranch
    /\ lastSelectedFilePath = n.lastSelectedFilePath
    /\ loadingFile = n.loadingFile
    /\ currentChunkIndex = n.currentChunkIndex
    /\ running = n.running
    /\ pendingLists = n.pendingLists
    /\ pendingLoads = n.pendingLoads
    /\ emptyLoads = n.emptyLoads
    /\ lastEv = ev

\* the bounds of the model: the operations in flight and the typed query
WithinBounds(n) ==
    /\ BagCardinality(n.pendingLists) <= MaxLists
    /\ BagCardinality(n.pendingLoads) <= MaxLoads
    /\ Len(n.searchQuery) <= MaxQueryLen

\* no exported function is called directly while the application runs
NoCall == [fn |-> "none", done |-> FALSE]

\* App(): the signals are created and the Dirty listing is started
Init ==
    /\ AppIs(loadDirtyChanges(InitState), Event("init", "App"))
    /\ fnCall = NoCall
    /\ fnResult = Null

\* a key event; in search mode only the characters of TypeChars are typed
KeyPress(key) ==
    /\ running
    /\ searchMode /\ key.printable => key.name \in TypeChars /\ ~key.shift
    /\ LET n == useKeyboard(Cur, key)
       IN  /\ WithinBounds(n)
           /\ Step(n, KeyEvent(key))

\* a mouse wheel event over the sidebar
SidebarScroll(direction) ==
    /\ running
    /\ LET n == handleSidebarScroll(Cur, direction)
       IN  /\ WithinBounds(n)
           /\ Step(n, Event("mouse", "scroll"))

\* a mouse wheel event over the diff viewer
DiffScroll(direction) ==
    /\ running
    /\ Step(handleDiffScroll(Cur, direction), Event("mouse", "scroll"))

\* a listing call resolves, with the outcome out
ResolveListing(p, out) ==
    /\ running
    /\ BagIn(p, pendingLists)
    /\ p.op # "dirty" => out.read
    /\ LET n == ListingResolved(
                    [Cur EXCEPT !.pendingLists = @ (-) SetToBag({p})], p, out)
       IN  /\ WithinBounds(n)
           /\ Step(n, Event("listing", p.op))

\* a loadFileDetails call resolves, with the outcome out
ResolveLoad(p, out) ==
    /\ running
    /\ BagIn(p, pendingLoads)
    /\ LET loadedFile == loadFileDetails(p.file, p.target, out)
           n == LoadResolved(
                    [Cur EXCEPT !.pendingLoads = @ (-) SetToBag({p})], loadedFile)
       IN  Step([n EXCEPT !.emptyLoads =
                    IF Truthy(loadedFile.content) THEN @
                    ELSE @ \cup {[path |-> p.file.path, target |-> p.target]}],
                Event("load", "loadFileDetails"))

\* some key of the set keys is pressed
KeyEvents(keys) == \E key \in keys : KeyPress(key)

\* the mouse wheel is turned over one of the two panels
MouseEvents ==
    \/ \E direction \in {"up", "down"} : SidebarScroll(direction)
    \/ \E direction \in {"up", "down"} : DiffScroll(direction)

\* a retrieval in flight resolves with one of the outcomes
Resolutions(outcomes) ==
    \/ \E p \in BagToSet(pendingLists) : \E out \in outcomes : ResolveListing(p, out)
    \/ \E p \in BagToSet(pendingLoads) : \E out \in outcomes : ResolveLoad(p, out)

\* Navigation and loading: the keys that change the mode, the view level,
\* the focus and the selection, and that refresh; the retrievals succeed.
NavKeys ==
    {Plain(n) : n \in {"m", "j", "k", "r"}}
    \cup {Special(n) : n \in {"escape", "return", "tab"}}

Next ==
    \/ KeyEvents(NavKeys)
    \/ Resolutions({AllOk})

Spec == Init /\ [][Next]_vars

(***************************************************************************)
(* Lazy loading of file details: the load issued by the effect and the     *)
(* selection, the comparison target and the loads in flight when it        *)
(* resolves.                                                               *)
(***************************************************************************)

\* C1: a detail load issued for a file A that resolves while a different
\* file B is selected changes neither scrollOffset, nor the chunk index,
\* nor the diff and content of B.
C1_StaleLoadLeavesSelection ==
    [][\A p \in BagToSet(pendingLoads) : \A out \in Outcomes :
          (/\ ResolveLoad(p, out)
           /\ HasSelectedFile(Cur)
           /\ selectedFile(Cur).path # p.file.path)
          => /\ scrollOffset' = scrollOffset
             /\ currentChunkIndex' = currentChunkIndex
             /\ files'[selectedIndex + 1].diff = selectedFile(Cur).diff
             /\ files'[selectedIndex + 1].content = selectedFile(Cur).content]_vars

\* C2: a detail load that resolves after the comparison target changed is
\* discarded: no file of the collection shown for the current target
\* receives its diff or content.
C2_SupersededLoadDiscarded ==
    [][\A p \in BagToSet(pendingLoads) : \A out \in Outcomes :
          (/\ ResolveLoad(p, out)
           /\ viewState = "files"
           /\ p.target # CompareTarget(Cur))
          => files' = files]_vars

\* C3: at no time are two loadFileDetails calls in flight for the same path
\* under the same comparison target.
C3_OneLoadPerPathAndTarget ==
    \A p \in BagToSet(pendingLoads) :
        /\ CopiesIn(p, pendingLoads) = 1
        /\ \A q \in BagToSet(pendingLoads) :
              (q.file.path = p.file.path /\ q.target = p.target) => q = p

\* the number of loads in flight for the selected file under the current
\* comparison target
LoadsOfSelected ==
    LET mine == {q \in BagToSet(pendingLoads) :
                    /\ q.file.path = selectedFile(Cur).path
                    /\ q.target = CompareTarget(Cur)}
    IN  BagCardinality([q \in mine |-> CopiesIn(q, pendingLoads)])

\* C4: in Commit and Branch mode a file whose details are not loaded yet has
\* exactly one loadFileDetails call issued for it when it becomes the
\* selected file of the files view, however it became selected: while it is
\* selected and unloaded, exactly one load of it is in flight.
C4_UnloadedSelectionIsLoading ==
    (/\ mode \in {"commit", "branch"}
     /\ viewState = "files"
     /\ HasSelectedFile(Cur)
     /\ ~Truthy(selectedFile(Cur).content))
    => LoadsOfSelected = 1

(***************************************************************************)
(* Navigation: Escape, the mode key and Enter in list view.                *)
(***************************************************************************)

\* the key is handled by the navigation handlers: neither the search input
\* nor the help dialog is open
Navigating == ~searchMode /\ ~showHelp

C6_ModeSwitch ==
    [][(KeyPress(Plain("m")) /\ Navigating)
       => /\ mode' = (CASE mode = "dirty" -> "commit"
                       [] mode = "commit" -> "branch"
                       [] mode = "branch" -> "dirty")
          /\ viewState' = (IF mode' = "dirty" THEN "files" ELSE "list")
          /\ focusedPanel' = "files"
          /\ selectedIndex' = 0
          /\ listSelectedIndex' = 0
          /\ scrollOffset' = 0
          /\ selectedCommit' = Null
          /\ selectedBranch' = Null
          /\ files' = <<>>
          /\ pendingLists' = pendingLists (+) SetToBag(
                {[op |-> (CASE mode' = "dirty" -> "dirty"
                          [] mode' = "commit" -> "commits"
                          [] mode' = "branch" -> "branches"),
                  ref |-> Null]})]_vars

\* C6, reached: the mode key has switched from Commit mode to Branch mode
\* and the branch listing is in flight
C6_Witness ==
    /\ lastEv = Event("key", "m")
    /\ mode = "branch"
    /\ viewState = "list"
    /\ BagIn([op |-> "branches", ref |-> Null], pendingLists)

\* C8: Enter in list view on an existing commit or branch sets the view
\* level and the focus to Files, selectedIndex and scrollOffset to 0,
\* records the entry as selectedCommit or selectedBranch and starts the
\* listing of its files; when the list has no entry under the cursor Enter
\* changes nothing.
C8_EnterInListView ==
    [][(KeyPress(Special("return")) /\ Navigating /\ viewState = "list")
       => IF /\ mode = "commit"
             /\ listSelectedIndex \in 0..(Len(commits) - 1)
          THEN /\ viewState' = "files"
               /\ focusedPanel' = "files"
               /\ selectedIndex' = 0
               /\ scrollOffset' = 0
               /\ selectedCommit' = commits[listSelectedIndex + 1]
               /\ pendingLists' = pendingLists (+) SetToBag(
                     {[op |-> "commitChanges", ref |-> selectedCommit']})
          ELSE IF /\ mode = "branch"
                  /\ listSelectedIndex \in 0..(Len(selectableBranches(Cur)) - 1)
          THEN /\ viewState' = "files"
               /\ focusedPanel' = "files"
               /\ selectedIndex' = 0
               /\ scrollOffset' = 0
               /\ selectedBranch' =
                     selectableBranches(Cur)[listSelectedIndex + 1].name
               /\ pendingLists' = pendingLists (+) SetToBag(
                     {[op |-> "branchChanges", ref |-> selectedBranch']})
          ELSE Cur' = Cur]_vars

\* C8, reached: Enter on the second commit of the list has opened its files
C8_Witness ==
    /\ lastEv = Event("key", "return")
    /\ mode = "commit"
    /\ viewState = "files"
    /\ listSelectedIndex = 1
    /\ selectedCommit = commits[2]
    /\ BagIn([op |-> "commitChanges", ref |-> commits[2]], pendingLists)

(***************************************************************************)
(* Search and navigation.  The keys that type a query and run the search   *)
(* are added to those that change the mode, the view level and the         *)
(* selection.                                                              *)
(***************************************************************************)
SearchKeys ==
    {Plain(n) : n \in {"/", "x", "m", "j"}}
    \cup {Special(n) : n \in {"return", "escape"}}

NextSearch ==
    \/ KeyEvents(SearchKeys)
    \/ Resolutions({AllOk})

SpecSearch == Init /\ [][NextSearch]_vars

\* the path of the selected file of the files view, Null when there is none
SelectedPath(s) ==
    IF s.viewState = "files" /\ HasSelectedFile(s) THEN selectedFile(s).path
    ELSE Null

\* C7: the search state is cleared (no matches, match index 0, search not
\* active) after a mode switch, after Escape back to the list, after a
\* commit or branch is selected in the list, and after the selected file
\* changes.
C7_NavigationClearsSearch ==
    [][(\/ KeyPress(Plain("m")) /\ Navigating
        \/ /\ KeyPress(Special("escape")) /\ Navigating
           /\ viewState = "files" /\ viewState' = "list"
        \/ /\ KeyPress(Special("return")) /\ Navigating
           /\ viewState = "list" /\ viewState' = "files"
        \/ /\ SelectedPath(Cur') # Null
           /\ SelectedPath(Cur') # SelectedPath(Cur))
       => /\ searchMatches' = <<>>
          /\ currentMatchIndex' = 0
          /\ searchActive' = FALSE]_vars

(***************************************************************************)
(* Listing: the FileChanges a listing hands to the application.            *)
(***************************************************************************)

\* the file carries no details: they are still to be loaded
Unloaded(file) ==
    /\ file.diff = EmptyText
    /\ file.content = EmptyText
    /\ file.changedLines = {}
    /\ file.firstChangeLine = 0

\* the listing that has just resolved is one of ops
Listed(ops) == lastEv.kind = "listing" /\ lastEv.name \in ops

\* C9: every FileChange returned by a listing of the Dirty, Commit or
\* Branch target has empty diff, content and changedLines and
\* firstChangeLine 0: listing retrieves nothing per file.
C9_ListingsAreLazy ==
    Listed({"dirty", "commitChanges", "branchChanges"})
    => \A i \in 1..Len(files) : Unloaded(files[i])

\* C9, amended: every FileChange returned by a listing of a Commit or a
\* Branch target has empty diff, content and changedLines and
\* firstChangeLine 0; the Dirty listing retrieves them per file itself.
C9_CommitAndBranchListingsAreLazy ==
    Listed({"commitChanges", "branchChanges"})
    => \A i \in 1..Len(files) : Unloaded(files[i])

\* C9, reached: the listing of the first commit has returned its two files
C9_Witness ==
    /\ Listed({"commitChanges"})
    /\ selectedCommit = commits[1]
    /\ Len(files) = 2

(***************************************************************************)
(* loadFileDetails called directly: any file of a listing, under any       *)
(* comparison target, with any outcome of the retrievals.                  *)
(***************************************************************************)
LoadPaths == {"a", "b", "n", "p"}

LoadStatuses == {"modified", "added", "deleted", "untracked", "renamed"}

LoadTargets ==
    {[type |-> "dirty", ref |-> Null]}
    \cup {[type |-> "commit", ref |-> RepoCommits[i]] : i \in 1..Len(RepoCommits)}
    \cup {[type |-> "branch", ref |-> "f1"]}

LoadCalls ==
    {[fn |-> "loadFileDetails", done |-> FALSE,
      file |-> NewFileChange(path, status), target |-> target, out |-> out] :
        path \in LoadPaths, status \in LoadStatuses,
        target \in LoadTargets, out \in Outcomes}

InitLoad ==
    /\ AppIs(InitState, Event("init", "loadFileDetails"))
    /\ fnCall \in LoadCalls
    /\ fnResult = Null

\* the call returns
ReturnLoad ==
    /\ fnCall.fn = "loadFileDetails"
    /\ ~fnCall.done
    /\ fnResult' = loadFileDetails(fnCall.file, fnCall.target, fnCall.out)
    /\ fnCall' = [fnCall EXCEPT !.done = TRUE]
    /\ UNCHANGED << mode, viewState, files, selectedIndex, focusedPanel,
                    loading, error, scrollOffset, showHelp, searchMode,
                    searchQuery, searchActive, searchMatches,
                    currentMatchIndex, commits, listSelectedIndex,
                    selectedCommit, branches, selectedBranch, currentBranch,
                    lastSelectedFilePath, loadingFile, currentChunkIndex,
                    running, pendingLists, pendingLoads, emptyLoads, lastEv >>

NextLoad == ReturnLoad

SpecLoad == InitLoad /\ [][NextLoad]_vars

\* the call reads the working file
ReadsWorkFile(call) ==
    CASE call.target.type = "dirty" -> call.file.status # "deleted"
      [] call.target.type = "commit" -> FALSE
      [] call.target.type = "branch" -> call.file.status # "deleted"

\* the call runs git
RunsGit(call) ==
    ~(call.target.type = "dirty" /\ call.file.status = "untracked")

\* one of the retrievals of the call fails
RetrievalFails(call) ==
    \/ ReadsWorkFile(call) /\ ~call.out.read
    \/ RunsGit(call) /\ ~call.out.git

\* C10: when a retrieval (the read of the working file or a git call)
\* fails during loadFileDetails, the FileChange returned is the FileChange
\* passed in, unchanged.
C10_FailedLoadReturnsInput ==
    (fnCall.done /\ RetrievalFails(fnCall)) => fnResult = fnCall.file

(***************************************************************************)
(* The lazy load of the selected file succeeds.                            *)
(***************************************************************************)

\* the load p, resolving with the outcome out, is the load of the selected
\* file and hands its content over
SelectedLoadSucceeds(p, out) ==
    /\ lastEv'.kind = "load"
    /\ HasSelectedFile(Cur)
    /\ selectedFile(Cur).path = p.file.path
    /\ ResolveLoad(p, out)
    /\ Truthy(loadFileDetails(p.file, p.target, out).content)

\* C14: when the lazy load of the selected file succeeds, scrollOffset is
\* set to max(0, firstChangeLine - 5).
C14_LoadScrollsToFirstChange ==
    [][\A p \in BagToSet(pendingLoads) : \A out \in Outcomes :
          SelectedLoadSucceeds(p, out)
          => LET first == loadFileDetails(p.file, p.target, out).firstChangeLine
             IN  scrollOffset' = IF first - 5 > 0 THEN first - 5 ELSE 0]_vars

\* C14, reached: the second file of the first commit, whose first change is
\* on line 7, has been loaded and the diff is scrolled to line 2
C14_Witness ==
    /\ lastEv = Event("load", "loadFileDetails")
    /\ HasSelectedFile(Cur)
    /\ Truthy(selectedFile(Cur).content)
    /\ selectedFile(Cur).firstChangeLine = 7
    /\ scrollOffset = 2

\* C15: when the lazy load of the selected file succeeds, the chunk index
\* is reset to -1, not yet on any chunk.
C15_LoadResetsChunkIndexToNone ==
    [][\A p \in BagToSet(pendingLoads) : \A out \in Outcomes :
          SelectedLoadSucceeds(p, out) => currentChunkIndex' = -1]_vars

\* C15, amended: when the lazy load of the selected file succeeds, the chunk
\* index is reset to 0, the chunk the diff has just been scrolled to, so
\* that the next nextChunk goes to chunk 1 when the file has more than one
\* chunk and to chunk 0 otherwise.
C15_LoadResetsChunkIndexToFirst ==
    [][\A p \in BagToSet(pendingLoads) : \A out \in Outcomes :
          SelectedLoadSucceeds(p, out)
          => /\ currentChunkIndex' = 0
             /\ jumpToNextChunk(Cur').currentChunkIndex =
                   IF chunkCount(Cur') > 1 THEN 1 ELSE 0]_vars

\* C15, reached: the first file of the first commit, which has two chunks,
\* has been loaded
C15_Witness ==
    /\ lastEv = Event("load", "loadFileDetails")
    /\ HasSelectedFile(Cur)
    /\ Truthy(selectedFile(Cur).content)
    /\ chunkCount(Cur) = 2
    /\ currentChunkIndex = 0

(***************************************************************************)
(* parseChangedLines called directly, on the diffs of at most MaxDiffLines *)
(* lines of DiffLines and on the diff of the test "parses additions        *)
(* correctly".                                                             *)
(***************************************************************************)
MaxDiffLines == 3

ContextLine == <<" ", "c", "o", "n", "t", "e", "x", "t">>

AddedLine == <<"+", "a", "d", "d", "e", "d", " ", "l", "i", "n", "e">>

DeletedLine == <<"-", "o", "l", "d">>

NoNewlineLine == <<"\\", " ", "N", "o">>

BrokenHeader == <<"@", "@", " ", "-", "1", " ", "@", "@">>

DiffLines ==
    {HunkCounts(1, 3, 1, 4), HunkCounts(1, 4, 0, 0), Hunk(2, 3), BrokenHeader,
     ContextLine, AddedLine, DeletedLine, MetaOld, MetaNew, <<>>, NoNewlineLine}

\* @@ -1,3 +1,4 @@\n context\n+added line\n context
ExampleDiff == <<HunkCounts(1, 3, 1, 4), ContextLine, AddedLine, ContextLine>>

ParseCalls ==
    {[fn |-> "parseChangedLines", done |-> FALSE, diff |-> diff] :
        diff \in UNION {[1..n -> DiffLines] : n \in 0..MaxDiffLines}
                 \cup {ExampleDiff}}

InitParse ==
    /\ AppIs(InitState, Event("init", "parseChangedLines"))
    /\ fnCall \in ParseCalls
    /\ fnResult = Null

\* the call returns
ReturnParse ==
    /\ fnCall.fn = "parseChangedLines"
    /\ ~fnCall.done
    /\ fnResult' = parseChangedLines(fnCall.diff)
    /\ fnCall' = [fnCall EXCEPT !.done = TRUE]
    /\ UNCHANGED << mode, viewState, files, selectedIndex, focusedPanel,
                    loading, error, scrollOffset, showHelp, searchMode,
                    searchQuery, searchActive, searchMatches,
                    currentMatchIndex, commits, listSelectedIndex,
                    selectedCommit, branches, selectedBranch, currentBranch,
                    lastSelectedFilePath, loadingFile, currentChunkIndex,
                    running, pendingLists, pendingLoads, emptyLoads, lastEv >>

NextParse == ReturnParse

SpecParse == InitParse /\ [][NextParse]_vars

\* the line is a hunk header that sets the counter
SeedsCounter(line) == StartsWith(line, <<"@", "@">>) /\ HunkMatch(line).ok

\* the line is a context line
IsContextLine(line) == StartsWith(line, <<" ">>) \/ line = <<>>

\* the last header before line i of the diff that sets the counter, 0 when
\* there is none
SeedBefore(diff, i) ==
    LET hs == {h \in 1..(i - 1) : SeedsCounter(diff[h])}
    IN  IF hs = {} THEN 0 ELSE CHOOSE h \in hs : \A g \in hs : g <= h

\* the counter when line i of the diff is reached: the seed, new-start minus
\* one, plus the additions and context lines since the seed
CounterAt(diff, i) ==
    LET h == SeedBefore(diff, i)
        seed == IF h = 0 THEN 0 ELSE HunkMatch(diff[h]).new - 1
    IN  seed + Cardinality({j \in (h + 1)..(i - 1) :
                              IsAddition(diff[j]) \/ IsContextLine(diff[j])})

\* the positions recorded: the counter at each addition and each deletion
RecordedPositions(diff) ==
    LET at == SelectSeq([i \in 1..Len(diff) |-> i],
                        LAMBDA i : IsAddition(diff[i]) \/ IsDeletion(diff[i]))
    IN  [k \in 1..Len(at) |-> CounterAt(diff, at[k])]

\* C16: parseChangedLines keeps one 0-indexed counter, seeded by each hunk
\* header with its new-start minus one; an addition records the counter and
\* increments it, a deletion records it without incrementing it, a context
\* line increments it without recording.  The diff of one addition between
\* two context lines in the hunk -1,3 +1,4 yields position 1 only.
C16_ParseChangedLines ==
    fnCall.done
    => /\ fnResult = RecordedPositions(fnCall.diff)
       /\ fnCall.diff = ExampleDiff => fnResult = <<1>>

\* C16, reached: the diff of the example has been parsed
C16_Witness ==
    /\ fnCall.done
    /\ fnCall.diff = ExampleDiff
    /\ fnResult = <<1>>

\* C17: every element of the changedLines set produced by loadFileDetails
\* is a non-negative integer, and so is firstChangeLine, also for a hunk
\* whose new-start is 0.
C17_ChangedLinesNonNegative ==
    (fnCall.fn = "loadFileDetails" /\ fnCall.done)
    => /\ \A line \in fnResult.changedLines : line >= 0
       /\ fnResult.firstChangeLine >= 0

(***************************************************************************)
(* getChunkPositions, jumpToNextChunk and jumpToPrevChunk called directly, *)
(* on a file whose changedLines is any set of lines up to MaxLine (and the *)
(* position -1 of a deletion under a hunk +0,0), from any chunk index.     *)
(* The navigation functions are applied as many times as the file has      *)
(* chunks, once when it has none.                                          *)
(***************************************************************************)
MaxLine == 6

\* a loaded file of twelve lines with the changed lines changedLines
ChunkFile(changedLines) ==
    [NewFileChange("a", "modified") EXCEPT
        !.content = Fill(12, "c"),
        !.diff = <<Hunk(1, 1)>>,
        !.changedLines = changedLines,
        !.firstChangeLine = IF changedLines = {} THEN 0 ELSE SetMin(changedLines)]

\* the files view showing that file, the chunk index being index
ChunkState(changedLines, index) ==
    [InitState EXCEPT
        !.files = <<ChunkFile(changedLines)>>,
        !.loading = FALSE,
        !.lastSelectedFilePath = "a",
        !.scrollOffset = 2,
        !.currentChunkIndex = index]

ChunkCalls ==
    {[fn |-> "getChunkPositions", done |-> FALSE, steps |-> 0,
      state |-> ChunkState(changedLines, -1)] :
        changedLines \in SUBSET (-1..MaxLine)}
    \cup
    {[fn |-> fn, done |-> FALSE, steps |-> 0,
      state |-> ChunkState(call[1], call[2])] :
        fn \in {"jumpToNextChunk", "jumpToPrevChunk"},
        call \in {c \in (SUBSET (-1..MaxLine)) \X (-1..MaxLine) :
                    c[2] <= Len(ChunksOf(c[1]))}}

InitChunks ==
    /\ AppIs(InitState, Event("init", "chunks"))
    /\ fnCall \in ChunkCalls
    /\ fnResult = IF fnCall.fn = "getChunkPositions" THEN <<>> ELSE fnCall.state

\* getChunkPositions returns
ReturnChunks ==
    /\ fnCall.fn = "getChunkPositions"
    /\ ~fnCall.done
    /\ fnResult' = getChunkPositions(fnCall.state)
    /\ fnCall' = [fnCall EXCEPT !.done = TRUE]
    /\ UNCHANGED << mode, viewState, files, selectedIndex, focusedPanel,
                    loading, error, scrollOffset, showHelp, searchMode,
                    searchQuery, searchActive, searchMatches,
                    currentMatchIndex, commits, listSelectedIndex,
                    selectedCommit, branches, selectedBranch, currentBranch,
                    lastSelectedFilePath, loadingFile, currentChunkIndex,
                    running, pendingLists, pendingLoads, emptyLoads, lastEv >>

\* the navigation function of the call is applied to the state the
\* applications before it have left
ChunkStep ==
    /\ fnCall.fn \in {"jumpToNextChunk", "jumpToPrevChunk"}
    /\ fnCall.steps < Max(chunkCount(fnCall.state), 1)
    /\ fnResult' = IF fnCall.fn = "jumpToNextChunk" THEN jumpToNextChunk(fnResult)
                   ELSE jumpToPrevChunk(fnResult)
    /\ fnCall' = [fnCall EXCEPT !.done = TRUE, !.steps = @ + 1]
    /\ UNCHANGED << mode, viewState, files, selectedIndex, focusedPanel,
                    loading, error, scrollOffset, showHelp, searchMode,
                    searchQuery, searchActive, searchMatches,
                    currentMatchIndex, commits, listSelectedIndex,
                    selectedCommit, branches, selectedBranch, currentBranch,
                    lastSelectedFilePath, loadingFile, currentChunkIndex,
                    running, pendingLists, pendingLoads, emptyLoads, lastEv >>

NextChunks ==
    \/ ReturnChunks
    \/ ChunkStep

SpecChunks == InitChunks /\ [][NextChunks]_vars

\* the changedLines set of the call
CallLines == fnCall.state.files[1].changedLines

\* the element of the set before line, in ascending order
Predecessor(lines, line) ==
    CHOOSE y \in lines : y < line /\ \A z \in lines : z < line => z <= y

\* line starts a chunk of the set
StartsChunk(lines, line) ==
    \/ \A y \in lines : line <= y
    \/ /\ \E y \in lines : y < line
       /\ line - Predecessor(lines, line) > 1

\* C18: the chunk starts returned by getChunkPositions are strictly
\* increasing members of the changedLines set; an element is a chunk start
\* if and only if it is the minimum of the set or exceeds its predecessor in
\* sorted order by more than 1; the chunk count is 0 if and only if the set
\* is empty.
C18_ChunkStarts ==
    (fnCall.fn = "getChunkPositions" /\ fnCall.done)
    => /\ \A i \in 1..Len(fnResult) : fnResult[i] \in CallLines
       /\ \A i \in 1..(Len(fnResult) - 1) : fnResult[i] < fnResult[i + 1]
       /\ \A line \in CallLines :
             (\E i \in 1..Len(fnResult) : fnResult[i] = line)
             <=> StartsChunk(CallLines, line)
       /\ (chunkCount(fnCall.state) = 0 <=> CallLines = {})
       /\ chunkCount(fnCall.state) = Len(fnResult)

\* C18, reached: the lines 0, 1, 3, 5 and 6 have the chunk starts 0, 3, 5
C18_Witness ==
    /\ fnCall.fn = "getChunkPositions"
    /\ fnCall.done
    /\ CallLines = {0, 1, 3, 5, 6}
    /\ fnResult = <<0, 3, 5>>

\* C19: nextChunk yields 0 when the index is below 0, wraps to 0 when it is
\* at or beyond the last chunk, and yields index + 1 otherwise; prevChunk
\* wraps to the last chunk when the index is at most 0 and yields index - 1
\* otherwise; with no chunk both leave the chunk index and the scroll
\* offset unchanged.
C19_ChunkNavigation ==
    [][ChunkStep
       => LET index == fnResult.currentChunkIndex
              count == chunkCount(fnResult)
          IN  IF count = 0
              THEN /\ fnResult'.currentChunkIndex = index
                   /\ fnResult'.scrollOffset = fnResult.scrollOffset
              ELSE IF fnCall.fn = "jumpToNextChunk"
              THEN fnResult'.currentChunkIndex =
                     IF index < 0 THEN 0
                     ELSE IF index >= count - 1 THEN 0
                     ELSE index + 1
              ELSE fnResult'.currentChunkIndex =
                     IF index <= 0 THEN count - 1 ELSE index - 1]_vars

\* C19, reached: nextChunk has wrapped from the last of three chunks to the
\* first
C19_Witness ==
    /\ fnCall.fn = "jumpToNextChunk"
    /\ fnCall.steps = 1
    /\ chunkCount(fnCall.state) = 3
    /\ fnCall.state.currentChunkIndex = 2
    /\ fnResult.currentChunkIndex = 0

\* the navigation function has been applied as many times as there are
\* chunks, and there is one at least
CycleDone ==
    /\ fnCall.fn \in {"jumpToNextChunk", "jumpToPrevChunk"}
    /\ chunkCount(fnCall.state) >= 1
    /\ fnCall.steps = chunkCount(fnCall.state)

\* C20: with at least one chunk, nextChunk applied chunkCount times, or
\* prevChunk applied chunkCount times, from any chunk index, the index -1
\* of not being on a chunk included, returns the index to where it started.
C20_CycleFromAnyIndex ==
    (CycleDone /\ fnCall.state.currentChunkIndex \in
                     -1..(chunkCount(fnCall.state) - 1))
    => fnResult.currentChunkIndex = fnCall.state.currentChunkIndex

\* C20, amended: with at least one chunk, nextChunk applied chunkCount
\* times, or prevChunk applied chunkCount times, from the index of any chunk
\* (0 to chunkCount - 1) returns the index to where it started; from -1 the
\* index ends on a chunk and never returns to -1.
C20_CycleFromAChunk ==
    /\ (CycleDone /\ fnCall.state.currentChunkIndex \in
                       0..(chunkCount(fnCall.state) - 1))
       => fnResult.currentChunkIndex = fnCall.state.currentChunkIndex
    /\ (CycleDone /\ fnCall.state.currentChunkIndex = -1)
       => fnResult.currentChunkIndex \in 0..(chunkCount(fnCall.state) - 1)

\* C20, reached: prevChunk applied three times from the second of three
\* chunks is back on the second chunk
C20_Witness ==
    /\ fnCall.fn = "jumpToPrevChunk"
    /\ chunkCount(fnCall.state) = 3
    /\ fnCall.steps = 3
    /\ fnCall.state.currentChunkIndex = 1
    /\ fnResult.currentChunkIndex = 1

(***************************************************************************)
(* Failing retrievals: the git call of a listing or of a load may fail.    *)
(* The keys switch the mode, open a commit or a branch, move the cursor    *)
(* and refresh.  A listing call that was started returns: each listing in  *)
(* flight is resolved in the end.                                          *)
(***************************************************************************)
GitFails == [git |-> FALSE, read |-> TRUE]

FailOutcomes == {AllOk, GitFails}

FailKeys ==
    {Plain(n) : n \in {"m", "r"}} \cup {Special("return")}

NextFail ==
    \/ KeyEvents(FailKeys)
    \/ Resolutions(FailOutcomes)

\* the listing calls the load helpers make
ListingCalls ==
    {[op |-> op, ref |-> Null] : op \in {"dirty", "commits", "branches"}}
    \cup {[op |-> "commitChanges", ref |-> RepoCommits[i]] : i \in 1..Len(RepoCommits)}
    \cup {[op |-> "branchChanges", ref |-> "f1"]}

\* the listing call p returns, with one outcome or the other
ListingReturns(p) == \E out \in FailOutcomes : ResolveListing(p, out)

SpecFail ==
    /\ Init
    /\ [][NextFail]_vars
    /\ \A p \in ListingCalls : WF_vars(ListingReturns(p))

\* Moving between the files of a commit or a branch: the listings succeed,
\* the loads may fail.
RetryKeys ==
    {Plain(n) : n \in {"m", "j", "k"}} \cup {Special("return")}

NextRetry ==
    \/ KeyEvents(RetryKeys)
    \/ \E p \in BagToSet(pendingLists) : ResolveListing(p, AllOk)
    \/ \E p \in BagToSet(pendingLoads) : \E out \in FailOutcomes : ResolveLoad(p, out)

SpecRetry == Init /\ [][NextRetry]_vars

\* C11: once a load of a file has resolved leaving the file without content,
\* no further load is issued for that file under the same comparison
\* target, wherever the selection moves in between.
C11_NoRetryAfterEmptyLoad ==
    [][\A p \in BagToSet(pendingLoads') :
          CopiesIn(p, pendingLoads') > CopiesIn(p, pendingLoads)
          => [path |-> p.file.path, target |-> p.target] \notin emptyLoads]_vars

\* what the listing p fills when it resolves
ResultOf(s, p) ==
    CASE p.op = "commits" -> s.commits
      [] p.op = "branches" -> s.branches
      [] OTHER -> s.files

\* C12: when the retrieval of a listing fails, in any mode, the state has an
\* empty result set and an error string that is not null, and so differs
\* from the state after a successful listing without entries.
C12_ListingFailureSurfaces ==
    [][\A p \in BagToSet(pendingLists) :
          (lastEv'.kind = "listing" /\ ResolveListing(p, GitFails))
          => /\ ResultOf(Cur', p) = <<>>
             /\ error' # Null]_vars

\* the refresh key is handled by Refresh and starts a listing
RefreshAvailable ==
    (running /\ Navigating)
    => /\ useKeyboard(Cur, Plain("r")) = Refresh(Cur)
       /\ BagCardinality(Refresh(Cur).pendingLists) =
             BagCardinality(pendingLists) + 1
       /\ Refresh(Cur).running

\* C13: every listing that is started, whether its retrieval succeeds or
\* fails, resolves in the end with loading = false; and in every reachable
\* state the keys are still handled and the refresh key starts a listing.
C13_ListingsResolveAndRefreshStays ==
    /\ \A p \in ListingCalls :
          BagIn(p, pendingLists) ~> (Listed({p.op}) /\ ~loading)
    /\ [][\A p \in BagToSet(pendingLists) : \A out \in FailOutcomes :
            (lastEv'.kind = "listing" /\ ResolveListing(p, out))
            => (~loading' /\ running')]_vars
    /\ []RefreshAvailable

\* C13, reached: the listing of the commits has failed (the repository has
\* commits, none is listed) and loading is false
C13_Witness ==
    /\ Listed({"commits"})
    /\ commits = <<>>
    /\ mode = "commit"
    /\ ~loading
    /\ running

(***************************************************************************)
(* executeSearch, jumpToNextMatch and jumpToPrevMatch on their own.  A     *)
(* search is run on short texts of the characters a and b, on the line of  *)
(* the README scenario and on tall files (more lines than the viewport     *)
(* shows) some lines of which hold "aa"; the scan loop of executeSearch is *)
(* followed iteration by iteration.  The match navigation is applied, as   *)
(* many times as there are matches, to the states a search has left.       *)
(***************************************************************************)
MaxLineLen == 3

TallLines == 10

MaxHitLines == 2

\* no scan of the model records more than MaxHits matches
MaxHits == 12

SearchChars == {"a", "b"}

\* the strings of at most n characters
Words(n) == UNION {[1..k -> SearchChars] : k \in 0..n}

ShortTexts == {<<line>> : line \in Words(MaxLineLen)}

\* a file of TallLines lines: "aa" on the (0-based) lines hitLines, "b" elsewhere
TallText(hitLines) ==
    [i \in 1..TallLines |-> IF i - 1 \in hitLines THEN <<"a", "a">> ELSE <<"b">>]

TallTexts ==
    {TallText(hitLines) : hitLines \in {h \in SUBSET (0..(TallLines - 1)) :
                                          Cardinality(h) <= MaxHitLines}}

\* "foo bar foofoo"
ExampleLine ==
    <<"f", "o", "o", " ", "b", "a", "r", " ", "f", "o", "o", "f", "o", "o">>

ExampleQuery == <<"f", "o", "o">>

SearchFile(content) ==
    [NewFileChange("a", "modified") EXCEPT
        !.content = content,
        !.diff = <<Hunk(1, 1)>>]

\* the files view showing a loaded file, the query typed and search mode left
SearchState(content, query) ==
    [InitState EXCEPT
        !.files = <<SearchFile(content)>>,
        !.loading = FALSE,
        !.lastSelectedFilePath = "a",
        !.scrollOffset = 1,
        !.searchQuery = query]

\* the files view without a file
NoFileState(query) ==
    [InitState EXCEPT !.loading = FALSE, !.searchQuery = query]

SearchInputs ==
    {SearchState(content, query) :
        content \in ShortTexts \cup TallTexts, query \in Words(MaxQueryLen)}
    \cup {SearchState(<<ExampleLine>>, ExampleQuery)}
    \cup {NoFileState(query) : query \in Words(MaxQueryLen)}

\* the states a search on a tall file leaves, the current match being any
\* of its matches
SearchedStates ==
    UNION {LET searched == executeSearch(SearchState(content, query))
           IN  {[searched EXCEPT !.currentMatchIndex = index] :
                   index \in 0..Max(0, Len(searched.searchMatches) - 1)} :
           content \in TallTexts, query \in Words(MaxQueryLen)}

SearchCall(fn, s) ==
    [fn |-> fn, done |-> FALSE, steps |-> 0, state |-> s,
     lineIdx |-> 0, startIdx |-> 0, matches |-> <<>>]

MatchCalls ==
    {SearchCall("executeSearch", s) : s \in SearchInputs}
    \cup {SearchCall(fn, s) :
            fn \in {"jumpToNextMatch", "jumpToPrevMatch"}, s \in SearchedStates}

InitMatch ==
    /\ AppIs(InitState, Event("init", "search"))
    /\ fnCall \in MatchCalls
    /\ fnResult = fnCall.state

\* executeSearch passes its guard and the for loop has lines left
Scanning(call) ==
    /\ call.fn = "executeSearch"
    /\ ~call.done
    /\ call.state.searchQuery # <<>>
    /\ HasSelectedFile(call.state)
    /\ call.lineIdx < Len(selectedFile(call.state).content)

\* Not the code: an iteration that searches again from the hit itself.
\* C23 tells it from ScanIteration.
ScanIterationWithoutAdvance(call) ==
    LET line == selectedFile(call.state).content[call.lineIdx + 1]
        foundIdx == IndexOf(line, call.state.searchQuery, call.startIdx)
    IN  IF foundIdx = -1
        THEN [call EXCEPT !.lineIdx = @ + 1, !.startIdx = 0]
        ELSE [call EXCEPT
                !.matches = Append(@, [line |-> call.lineIdx, start |-> foundIdx,
                                       length |-> Len(call.state.searchQuery)]),
                !.startIdx = foundIdx]

\* one iteration of the while (true) loop; the break moves to the next line
ScanIteration(call) ==
    LET line == selectedFile(call.state).content[call.lineIdx + 1]
        foundIdx == IndexOf(line, call.state.searchQuery, call.startIdx)
    IN  IF foundIdx = -1
        THEN [call EXCEPT !.lineIdx = @ + 1, !.startIdx = 0]
        ELSE [call EXCEPT
                !.matches = Append(@, [line |-> call.lineIdx, start |-> foundIdx,
                                       length |-> Len(call.state.searchQuery)]),
                !.startIdx = foundIdx + 1]

ScanStep ==
    /\ Scanning(fnCall)
    /\ Len(fnCall.matches) < MaxHits
    /\ fnCall' = ScanIteration(fnCall)
    /\ UNCHANGED << mode, viewState, files, selectedIndex, focusedPanel,
                    loading, error, scrollOffset, showHelp, searchMode,
                    searchQuery, searchActive, searchMatches,
                    currentMatchIndex, commits, listSelectedIndex,
                    selectedCommit, branches, selectedBranch, currentBranch,
                    lastSelectedFilePath, loadingFile, currentChunkIndex,
                    running, pendingLists, pendingLoads, emptyLoads, lastEv,
                    fnResult >>

\* executeSearch returns: at its guard, or after the last line
SearchReturns ==
    /\ fnCall.fn = "executeSearch"
    /\ ~fnCall.done
    /\ ~Scanning(fnCall)
    /\ fnResult' = executeSearch(fnCall.state)
    /\ fnCall' = [fnCall EXCEPT !.done = TRUE]
    /\ UNCHANGED << mode, viewState, files, selectedIndex, focusedPanel,
                    loading, error, scrollOffset, showHelp, searchMode,
                    searchQuery, searchActive, searchMatches,
                    currentMatchIndex, commits, listSelectedIndex,
                    selectedCommit, branches, selectedBranch, currentBranch,
                    lastSelectedFilePath, loadingFile, currentChunkIndex,
                    running, pendingLists, pendingLoads, emptyLoads, lastEv >>

\* the navigation function of the call is applied to the state the
\* applications before it have left
MatchStep ==
    /\ fnCall.fn \in {"jumpToNextMatch", "jumpToPrevMatch"}
    /\ fnCall.steps < Max(Len(fnCall.state.searchMatches), 1)
    /\ fnResult' = IF fnCall.fn = "jumpToNextMatch" THEN jumpToNextMatch(fnResult)
                   ELSE jumpToPrevMatch(fnResult)
    /\ fnCall' = [fnCall EXCEPT !.done = TRUE, !.steps = @ + 1]
    /\ UNCHANGED << mode, viewState, files, selectedIndex, focusedPanel,
                    loading, error, scrollOffset, showHelp, searchMode,
                    searchQuery, searchActive, searchMatches,
                    currentMatchIndex, commits, listSelectedIndex,
                    selectedCommit, branches, selectedBranch, currentBranch,
                    lastSelectedFilePath, loadingFile, currentChunkIndex,
                    running, pendingLists, pendingLoads, emptyLoads, lastEv >>

NextMatch ==
    \/ ScanStep
    \/ SearchReturns
    \/ MatchStep

\* the function runs to its end once called
SpecMatch == InitMatch /\ [][NextMatch]_vars /\ WF_vars(NextMatch)

\* the number of matches of the state the navigation started from
MatchCount == Len(fnCall.state.searchMatches)

Navigates == fnCall.fn \in {"jumpToNextMatch", "jumpToPrevMatch"}

\* C21: with at least one search match, the current match index stays
\* within 0..matchCount-1 under nextMatch and prevMatch, and matchCount
\* applications of nextMatch, or of prevMatch, bring it back to the index
\* it started from.
C21_MatchCycle ==
    (Navigates /\ MatchCount >= 1)
    => /\ fnResult.currentMatchIndex \in 0..(MatchCount - 1)
       /\ fnCall.steps = MatchCount
          => fnResult.currentMatchIndex = fnCall.state.currentMatchIndex

\* C21, reached: prevMatch has gone round at least three matches from a
\* match that is neither the first nor the last
C21_Witness ==
    /\ fnCall.fn = "jumpToPrevMatch"
    /\ MatchCount >= 3
    /\ fnCall.steps = MatchCount
    /\ fnCall.state.currentMatchIndex = 1
    /\ fnResult.currentMatchIndex = 1

\* executeSearch has run its scan (query not empty, a file selected)
Searched ==
    /\ fnCall.fn = "executeSearch"
    /\ fnCall.done
    /\ fnCall.state.searchQuery # <<>>
    /\ HasSelectedFile(fnCall.state)

\* match a comes before match b: by line, then by start
Precedes(a, b) == a.line < b.line \/ (a.line = b.line /\ a.start < b.start)

\* C22: executeSearch returns, ordered by line and then by start, every
\* position where the query occurs literally in a line of the selected
\* file, occurrences that overlap an earlier one included, each with the
\* length of the query, and sets currentMatchIndex to 0; "foo" in
\* "foo bar foofoo" gives the starts 0, 8 and 11.
C22_SearchFindsEveryOccurrence ==
    Searched
    => LET query == fnCall.state.searchQuery
           lines == selectedFile(fnCall.state).content
           found == fnResult.searchMatches
       IN  /\ \A k \in 1..Len(found) :
                 /\ found[k].line \in 0..(Len(lines) - 1)
                 /\ HasAt(lines[found[k].line + 1], found[k].start + 1, query)
                 /\ found[k].length = Len(query)
           /\ \A k \in 1..(Len(found) - 1) : Precedes(found[k], found[k + 1])
           /\ \A l \in 1..Len(lines) : \A c \in 1..Len(lines[l]) :
                 HasAt(lines[l], c, query)
                 => \E k \in 1..Len(found) :
                       found[k].line = l - 1 /\ found[k].start = c - 1
           /\ fnResult.currentMatchIndex = 0
           /\ fnResult.searchActive
           /\ (lines = <<ExampleLine>> /\ query = ExampleQuery)
              => [k \in 1..Len(found) |-> found[k].start] = <<0, 8, 11>>

\* C22, reached: "aa" has been searched in "aaa", where the second
\* occurrence overlaps the first
C22_Witness ==
    /\ Searched
    /\ fnCall.state.searchQuery = <<"a", "a">>
    /\ selectedFile(fnCall.state).content = << <<"a", "a", "a">> >>
    /\ Len(fnResult.searchMatches) = 2

\* C23: executeSearch with an empty query returns, with no match and the
\* search inactive; with any other query and any content its scan loop
\* comes to an end, having recorded the matches executeSearch returns.
C23_SearchTerminates ==
    /\ (fnCall.fn = "executeSearch") ~> (fnCall.fn = "executeSearch" /\ fnCall.done)
    /\ []((fnCall.fn = "executeSearch" /\ fnCall.done)
          => IF fnCall.state.searchQuery = <<>>
             THEN /\ fnResult.searchMatches = <<>>
                  /\ ~fnResult.searchActive
                  /\ fnCall.matches = <<>>
             ELSE fnCall.matches = fnResult.searchMatches)

\* C23, reached: a search with an empty query on a selected file has returned
C23_Witness ==
    /\ fnCall.fn = "executeSearch"
    /\ fnCall.done
    /\ fnCall.state.searchQuery = <<>>
    /\ HasSelectedFile(fnCall.state)
    /\ Len(selectedFile(fnCall.state).content) = TallLines
    /\ ~fnResult.searchActive

\* the scroll offset of a jump to a match on line matchLine
JumpTarget(s, matchLine) ==
    LET maxScroll == IF HasSelectedFile(s)
                     THEN Max(0, Len(selectedFile(s).content) - visibleHeight)
                     ELSE 0
    IN  Min(Max(0, matchLine - 5), maxScroll)

\* a jump to a match has been made: by a search that found one, or by
\* nextMatch or prevMatch
Jumped ==
    /\ Len(fnResult.searchMatches) > 0
    /\ \/ Searched
       \/ Navigates /\ fnCall.steps >= 1

\* C24: every jump to a search match (the first match of a search,
\* nextMatch, prevMatch) sets scrollOffset to
\* min(max(0, matchLine - 5), maxScroll), maxScroll being
\* max(0, content lines - visible height) of the selected file.
C24_JumpScrollsToMatch ==
    Jumped
    => fnResult.scrollOffset =
         JumpTarget(fnResult,
                    fnResult.searchMatches[fnResult.currentMatchIndex + 1].line)

\* C24, reached: nextMatch has jumped to a match so far down that the
\* maximum scroll offset limits the scroll
C24_Witness ==
    /\ fnCall.fn = "jumpToNextMatch"
    /\ Jumped
    /\ LET matchLine == fnResult.searchMatches[fnResult.currentMatchIndex + 1].line
       IN  /\ matchLine - 5 > Len(selectedFile(fnResult).content) - visibleHeight
           /\ fnResult.scrollOffset = Len(selectedFile(fnResult).content) - visibleHeight
           /\ fnResult.scrollOffset > 0

(***************************************************************************)
(* parseDiff called directly: on the texts of at most MaxDiffLines lines   *)
(* of ParseDiffLines, on the diff of the test "parses additions            *)
(* correctly", on a hunk with a malformed header in its middle, and on     *)
(* the well-formed diffs of one file: the file headers, one hunk header    *)
(* with the counts of its body, and a body of at most MaxDiffLines lines   *)
(* of BodyLines.                                                           *)
(***************************************************************************)
GitHeaderLine == <<"d", "i", "f", "f", " ", "-", "-", "g", "i", "t", " ", "a">>

IndexLine == <<"i", "n", "d", "e", "x", " ", "1">>

NewFileLine == <<"n", "e", "w", " ", "f", "i", "l", "e">>

\* @@ -0,0 +0,0 @@: a header whose two start numbers are 0
ZeroHunk == HunkCounts(0, 0, 0, 0)

ParseDiffLines == DiffLines \cup {GitHeaderLine, IndexLine, NewFileLine, ZeroHunk}

\* the lines of a hunk body: a context line, an added and a deleted line,
\* the added line "++ b" and the deleted line "-- a"
BodyLines == {ContextLine, AddedLine, DeletedLine, MetaNew, MetaOld}

\* the number of lines of body that start with one of the markers
Marked(body, markers) ==
    Cardinality({i \in 1..Len(body) : body[i][1] \in markers})

\* the diff git writes for a file whose only hunk has the body body
ValidDiff(body) ==
    LET oldCount == Marked(body, {"-", " "})
        newCount == Marked(body, {"+", " "})
    IN  <<GitHeaderLine, IndexLine, MetaOld, MetaNew,
          HunkCounts(IF oldCount = 0 THEN 0 ELSE 1, oldCount,
                     IF newCount = 0 THEN 0 ELSE 1, newCount)>> \o body

\* @@ -2 +3 @@, an added line, a malformed header, an added and a context line
InterruptedHunk == <<Hunk(2, 3), AddedLine, BrokenHeader, AddedLine, ContextLine>>

DiffCall(diff, body) ==
    [fn |-> "parseDiff", done |-> FALSE, diff |-> diff, body |-> body]

\* body is <<>> in the calls whose diff is not built by ValidDiff
DiffCalls ==
    {DiffCall(diff, <<>>) :
        diff \in UNION {[1..n -> ParseDiffLines] : n \in 1..MaxDiffLines}
                 \cup {EmptyText, ExampleDiff, InterruptedHunk}}
    \cup {DiffCall(ValidDiff(body), body) :
            body \in UNION {[1..n -> BodyLines] : n \in 1..MaxDiffLines}}

InitDiff ==
    /\ AppIs(InitState, Event("init", "parseDiff"))
    /\ fnCall \in DiffCalls
    /\ fnResult = <<>>

\* the call returns
ReturnDiff ==
    /\ fnCall.fn = "parseDiff"
    /\ ~fnCall.done
    /\ fnResult' = parseDiff(fnCall.diff)
    /\ fnCall' = [fnCall EXCEPT !.done = TRUE]
    /\ UNCHANGED << mode, viewState, files, selectedIndex, focusedPanel,
                    loading, error, scrollOffset, showHelp, searchMode,
                    searchQuery, searchActive, searchMatches,
                    currentMatchIndex, commits, listSelectedIndex,
                    selectedCommit, branches, selectedBranch, currentBranch,
                    lastSelectedFilePath, loadingFile, currentChunkIndex,
                    running, pendingLists, pendingLoads, emptyLoads, lastEv >>

NextDiff == ReturnDiff

SpecDiff == InitDiff /\ [][NextDiff]_vars

\* parseDiff has returned
Parsed == fnCall.fn = "parseDiff" /\ fnCall.done

\* the DiffLines of the result that are not headers
NonHeaders == SelectSeq(fnResult, LAMBDA d : d.type # "header")

\* C25: for a valid unified diff, the content fields of the DiffLines that
\* are not headers are, in order, the added, deleted and context lines of
\* the hunks of the diff without their leading marker: no body line is
\* lost, altered or moved, also when its own text begins with ++ or --.
C25_BodyLinesSurvive ==
    (Parsed /\ fnCall.body # <<>>)
    => [k \in 1..Len(NonHeaders) |-> NonHeaders[k].content]
         = [k \in 1..Len(fnCall.body) |-> Substring1(fnCall.body[k])]

\* the line begins with +++, ---, diff --git, new file or index
Metadata(line) ==
    \E prefix \in {<<"+", "+", "+">>, <<"-", "-", "-">>,
                   <<"d", "i", "f", "f", " ", "-", "-", "g", "i", "t">>,
                   <<"n", "e", "w", " ", "f", "i", "l", "e">>,
                   <<"i", "n", "d", "e", "x", " ">>} : StartsWith(line, prefix)

\* the line starts with a space or is empty
ContextLike(line) == StartsWith(line, <<" ">>) \/ line = <<>>

\* the DiffLine d renders the input line
Corresponds(d, line) ==
    CASE d.type = "header" -> StartsWith(line, <<"@", "@">>) /\ d.content = line
      [] d.type = "addition" ->
           StartsWith(line, <<"+">>) /\ d.content = Substring1(line)
      [] d.type = "deletion" ->
           StartsWith(line, <<"-">>) /\ d.content = Substring1(line)
      [] d.type = "context" -> ContextLike(line) /\ d.content = Substring1(line)
      [] OTHER -> FALSE

\* the input lines that are not diff metadata
NotMetadata == SelectSeq(fnCall.diff, LAMBDA line : ~Metadata(line))

\* C26 as stated: the DiffLines correspond one-to-one and in input order to
\* the input lines that are not diff metadata.
C26_OneToOneWithNonMetadata ==
    Parsed
    => /\ Len(fnResult) = Len(NotMetadata)
       /\ \A k \in 1..Len(fnResult) : Corresponds(fnResult[k], NotMetadata[k])

\* the line is neither metadata nor free to be left out: a header, an
\* added or a deleted line
AlwaysEmitted(line) ==
    /\ ~Metadata(line)
    /\ \E marker \in {<<"@", "@">>, <<"+">>, <<"-">>} : StartsWith(line, marker)

\* C26: the DiffLines correspond one-to-one and in input order to a
\* selection of the input lines that holds every line beginning with @@
\* and every line beginning with + or - that is not diff metadata, besides
\* these only lines that start with a space or are empty, and so neither
\* diff metadata nor a line beginning with any other character; for any
\* input, the empty string included, parseDiff returns such a sequence.
C26_OneToOneWithEmittedLines ==
    Parsed
    => \E chosen \in SUBSET (1..Len(fnCall.diff)) :
          /\ \A i \in 1..Len(fnCall.diff) :
                /\ AlwaysEmitted(fnCall.diff[i]) => i \in chosen
                /\ i \in chosen
                   => AlwaysEmitted(fnCall.diff[i]) \/ ContextLike(fnCall.diff[i])
          /\ Len(fnResult) = Cardinality(chosen)
          /\ \A k \in 1..Len(fnResult) :
                Corresponds(fnResult[k], fnCall.diff[SortSet(chosen)[k]])

\* C26, reached: of a header, an added line and the line "\ No", the first
\* two are emitted
C26_Witness ==
    /\ Parsed
    /\ fnCall.diff = <<Hunk(2, 3), AddedLine, NoNewlineLine>>
    /\ Len(fnResult) = 2

HasOld(d) == d.type \in {"deletion", "context"}

HasNew(d) == d.type \in {"addition", "context"}

\* the DiffLine is a header that sets the counters
Resets(d) == d.type = "header" /\ HunkMatch(d.content).ok

\* the last DiffLine before the k-th that carries a new number or sets the
\* counters, 0 when there is none; the same for the old number
PriorNew(k) ==
    LET prior == {j \in 1..(k - 1) : HasNew(fnResult[j]) \/ Resets(fnResult[j])}
    IN  IF prior = {} THEN 0 ELSE CHOOSE j \in prior : \A i \in prior : i <= j

PriorOld(k) ==
    LET prior == {j \in 1..(k - 1) : HasOld(fnResult[j]) \/ Resets(fnResult[j])}
    IN  IF prior = {} THEN 0 ELSE CHOOSE j \in prior : \A i \in prior : i <= j

\* C27: an Addition carries only newLineNumber, a Deletion only
\* oldLineNumber, a Context both and a Header neither; the new number of
\* an Addition or Context is the header's newStart when a header that
\* sets the counters comes just before it, and one more than the new
\* number before it otherwise; the same holds of the old numbers of
\* Deletions and Contexts and oldStart.
C27_LineNumbers ==
    Parsed
    => \A k \in 1..Len(fnResult) :
          LET d == fnResult[k] IN
          /\ d.type \in {"header", "addition", "deletion", "context"}
          /\ DOMAIN d = {"type", "content"}
                \cup (IF HasOld(d) THEN {"oldLineNumber"} ELSE {})
                \cup (IF HasNew(d) THEN {"newLineNumber"} ELSE {})
          /\ (HasNew(d) /\ PriorNew(k) > 0)
             => d.newLineNumber =
                  IF Resets(fnResult[PriorNew(k)])
                  THEN HunkMatch(fnResult[PriorNew(k)].content).new
                  ELSE fnResult[PriorNew(k)].newLineNumber + 1
          /\ (HasOld(d) /\ PriorOld(k) > 0)
             => d.oldLineNumber =
                  IF Resets(fnResult[PriorOld(k)])
                  THEN HunkMatch(fnResult[PriorOld(k)].content).old
                  ELSE fnResult[PriorOld(k)].oldLineNumber + 1

\* C27, reached: the diff of the test has been parsed; its second context
\* line has the old number 2 and the new number 3
C27_Witness ==
    /\ Parsed
    /\ fnCall.diff = ExampleDiff
    /\ Len(fnResult) = 4
    /\ fnResult[4].type = "context"
    /\ fnResult[4].oldLineNumber = 2
    /\ fnResult[4].newLineNumber = 3

\* line i of the diff is emitted as a Context DiffLine
EmittedAsContext(diff, i) ==
    LET upTo == parseDiff(SubSeq(diff, 1, i))
    IN  /\ Len(upTo) = Len(parseDiff(SubSeq(diff, 1, i - 1))) + 1
        /\ upTo[Len(upTo)].type = "context"

\* C28: a line that starts with a space or is empty is emitted as a
\* Context DiffLine if and only if a hunk header before it has set the
\* line counters; before the first hunk header no such line is emitted.
C28_ContextOnlyAfterHeader ==
    Parsed
    => \A i \in 1..Len(fnCall.diff) :
          ContextLike(fnCall.diff[i])
          => (EmittedAsContext(fnCall.diff, i)
              <=> \E j \in 1..(i - 1) :
                     /\ StartsWith(fnCall.diff[j], <<"@", "@">>)
                     /\ HunkMatch(fnCall.diff[j]).ok)

\* the diff without its line i
Without(diff, i) == SubSeq(diff, 1, i - 1) \o SubSeq(diff, i + 1, Len(diff))

\* C29: a line that begins with @@ and does not match the pattern of a
\* hunk header is emitted as a Header DiffLine and changes nothing else:
\* the other DiffLines, their numbers included, are those of the diff
\* without that line.
C29_MalformedHeader ==
    Parsed
    => \A i \in 1..Len(fnCall.diff) :
          (StartsWith(fnCall.diff[i], <<"@", "@">>) /\ ~HunkMatch(fnCall.diff[i]).ok)
          => LET before == Len(parseDiff(SubSeq(fnCall.diff, 1, i - 1)))
                 others == parseDiff(Without(fnCall.diff, i))
             IN  fnResult = SubSeq(others, 1, before)
                              \o <<[type |-> "header", content |-> fnCall.diff[i]]>>
                              \o SubSeq(others, before + 1, Len(others))

\* C29, reached: a malformed header stands between two added lines of a
\* hunk that starts at the new line 3; the second added line has the
\* number 4
C29_Witness ==
    /\ Parsed
    /\ fnCall.diff = InterruptedHunk
    /\ Len(fnResult) = 5
    /\ fnResult[3].type = "header"
    /\ fnResult[4].newLineNumber = 4
    /\ fnResult[5].oldLineNumber = 2

\* loadFileDetails has returned for an untracked file of the working tree
\* that could be read
UntrackedLoaded ==
    /\ fnCall.fn = "loadFileDetails"
    /\ fnCall.done
    /\ fnCall.file.status = "untracked"
    /\ fnCall.target.type = "dirty"
    /\ fnCall.out.read

\* the number of non-empty lines of a text
NonEmptyLines(text) == Cardinality({i \in 1..Len(text) : text[i] # <<>>})

\* C30: for an Untracked file whose content has N non-empty lines,
\* loadFileDetails under the Dirty target returns additions = N,
\* deletions = 0 and changedLines = {0..N-1}, and a diff whose only hunk
\* header is @@ -0,0 +1,N @@ and whose body lines are all additions.
C30_UntrackedRoundTrip ==
    UntrackedLoaded
    => LET N == NonEmptyLines(WorkFile(fnCall.file.path)) IN
       /\ fnResult.additions = N
       /\ fnResult.deletions = 0
       /\ fnResult.changedLines = 0..(N - 1)
       /\ fnResult.diff[1] = HunkCounts(0, 0, 1, N)
       /\ \A i \in 2..Len(fnResult.diff) :
             /\ ~StartsWith(fnResult.diff[i], <<"@", "@">>)
             /\ IsAddition(fnResult.diff[i])

(***************************************************************************)
(* git.ts: the status of an entry of git status --porcelain, for every     *)
(* pair of the status characters of the porcelain format.                  *)
(***************************************************************************)
\* the characters X and Y of a porcelain entry XY: unmodified, modified,
\* type changed, added, deleted, renamed, copied, unmerged, untracked,
\* ignored
StatusChars == {" ", "M", "T", "A", "D", "R", "C", "U", "?", "!"}

StatusCalls ==
    {[fn |-> "DirtyStatusOf", done |-> FALSE, staged |-> x, unstaged |-> y] :
        x \in StatusChars, y \in StatusChars}

InitStatus ==
    /\ AppIs(InitState, Event("init", "getGitChanges"))
    /\ fnCall \in StatusCalls
    /\ fnResult = Null

\* the status of the entry has been decided
ReturnStatus ==
    /\ fnCall.fn = "DirtyStatusOf"
    /\ ~fnCall.done
    /\ fnResult' = DirtyStatusOf(fnCall.staged, fnCall.unstaged)
    /\ fnCall' = [fnCall EXCEPT !.done = TRUE]
    /\ UNCHANGED << mode, viewState, files, selectedIndex, focusedPanel,
                    loading, error, scrollOffset, showHelp, searchMode,
                    searchQuery, searchActive, searchMatches,
                    currentMatchIndex, commits, listSelectedIndex,
                    selectedCommit, branches, selectedBranch, currentBranch,
                    lastSelectedFilePath, loadingFile, currentChunkIndex,
                    running, pendingLists, pendingLoads, emptyLoads, lastEv >>

NextStatus == ReturnStatus

SpecStatus == InitStatus /\ [][NextStatus]_vars

\* the status of the entry XY has been decided
Classified == fnCall.fn = "DirtyStatusOf" /\ fnCall.done

\* X or Y is the character c
Either(c) == fnCall.staged = c \/ fnCall.unstaged = c

\* C31: the status of an entry with the status code XY is Added if X or Y
\* is A; otherwise Deleted if X or Y is D; otherwise Renamed if X or Y is
\* R; otherwise Untracked if X and Y are both ?; otherwise Modified.
C31_StatusPrecedence ==
    Classified
    => /\ Either("A") => fnResult = "added"
       /\ (~Either("A") /\ Either("D")) => fnResult = "deleted"
       /\ (~Either("A") /\ ~Either("D") /\ Either("R")) => fnResult = "renamed"
       /\ (/\ ~Either("A") /\ ~Either("D") /\ ~Either("R")
           /\ fnCall.staged = "?" /\ fnCall.unstaged = "?")
          => fnResult = "untracked"
       /\ (/\ ~Either("A") /\ ~Either("D") /\ ~Either("R")
           /\ ~(fnCall.staged = "?" /\ fnCall.unstaged = "?"))
          => fnResult = "modified"

\* C31, reached: the entry AD, added to the index and deleted in the
\* working tree, is Added
C31_Witness ==
    /\ Classified
    /\ fnCall.staged = "A"
    /\ fnCall.unstaged = "D"
    /\ fnResult = "added"

(***************************************************************************)
(* Invariants of the navigation state: the entered commit or branch, the   *)
(* view level and the focus, the selection, the scroll offset and the      *)
(* chunk index.                                                            *)
(***************************************************************************)

\* C32: in Dirty mode selectedCommit and selectedBranch are both null;
\* selectedCommit is non-null only in Commit mode and selectedBranch only
\* in Branch mode.
C32_TargetOnlyInItsMode ==
    /\ mode = "dirty" => (selectedCommit = Null /\ selectedBranch = Null)
    /\ selectedCommit # Null => mode = "commit"
    /\ selectedBranch # Null => mode = "branch"

\* C32, reached: the files of the branch f1 are shown; no commit is entered
C32_Witness ==
    /\ mode = "branch"
    /\ viewState = "files"
    /\ selectedBranch = "f1"
    /\ selectedCommit = Null

\* C33: Escape pressed while the results of a search are active, and no
\* query is being typed, clears the search: searchMatches becomes empty,
\* searchActive false, the query empty and currentMatchIndex 0.
C33_EscapeClearsActiveSearch ==
    [][(/\ searchActive
        /\ ~searchMode
        /\ lastEv' = Event("key", "escape")
        /\ KeyPress(Special("escape")))
       => /\ searchMatches' = <<>>
          /\ ~searchActive'
          /\ searchQuery' = <<>>
          /\ currentMatchIndex' = 0]_vars

(***************************************************************************)
(* Quitting.  The keys q and Ctrl+c are added to those that open and       *)
(* close the help, start a search, type a query and run it, and that       *)
(* change the mode and the selection.                                      *)
(***************************************************************************)
QuitKeys ==
    {Plain(n) : n \in {"q", "/", "?", "m", "j"}}
    \cup {Ctrl("c"), Special("return")}

NextQuit ==
    \/ KeyEvents(QuitKeys)
    \/ Resolutions({AllOk})

SpecQuit == Init /\ [][NextQuit]_vars

\* the mode, the view level, the focus, the lists, the selection, the
\* entered commit or branch, the scroll offset and the chunk index stay as
\* they are
NavigationUnchanged ==
    UNCHANGED << mode, viewState, focusedPanel, files, selectedIndex, commits,
                 branches, listSelectedIndex, selectedCommit, selectedBranch,
                 scrollOffset, currentChunkIndex, lastSelectedFilePath,
                 showHelp, searchMode >>

\* C34: Ctrl+c ends the application in every state; q ends it in every
\* state but those in which a query is being typed, where q is appended
\* to the query and the application keeps running with its navigation
\* state unchanged.
C34_QuitKeys ==
    [][/\ (lastEv' = Event("key", "c") /\ KeyPress(Ctrl("c"))) => ~running'
       /\ (lastEv' = Event("key", "q") /\ KeyPress(Plain("q")))
          => IF searchMode
             THEN /\ running'
                  /\ searchQuery' = Append(searchQuery, "q")
                  /\ NavigationUnchanged
             ELSE ~running']_vars

\* C34, reached: q was typed into the query and the application runs
C34_Witness ==
    /\ lastEv = Event("key", "q")
    /\ running
    /\ searchMode
    /\ searchQuery = <<"q">>

(***************************************************************************)
(* Mode, view level and focus.  The keys h and l and the mouse wheel are   *)
(* added to the keys that change the mode, the view level and the focus.   *)
(***************************************************************************)
FocusKeys ==
    {Plain(n) : n \in {"m", "h", "l"}}
    \cup {Special(n) : n \in {"escape", "return", "tab"}}

NextFocus ==
    \/ KeyEvents(FocusKeys)
    \/ MouseEvents
    \/ Resolutions({AllOk})

SpecFocus == Init /\ [][NextFocus]_vars

\* C35: in Dirty mode the view level is Files, and in the list view the
\* focus is on the Files panel: no sequence of key events, mouse scrolls
\* and resolutions reaches (Dirty, List, *) or (*, List, Diff).
C35_ModeViewFocus ==
    /\ mode = "dirty" => viewState = "files"
    /\ viewState = "list" => focusedPanel = "files"

\* C35, reached: the diff of a file of a commit has the focus, after l
C35_Witness ==
    /\ mode = "commit"
    /\ viewState = "files"
    /\ focusedPanel = "diff"
    /\ lastEv = Event("key", "other")

\* C36: the selection indices are never negative, and when the file
\* collection is not empty selectedIndex is less than its length, as
\* listSelectedIndex is less than the length of a commit or selectable
\* branch list that is shown and not empty: a list that is not empty
\* always has a selected entry.
C36_SelectionInRange ==
    /\ selectedIndex >= 0
    /\ listSelectedIndex >= 0
    /\ Len(files) > 0 => selectedIndex < Len(files)
    /\ (mode = "commit" /\ Len(commits) > 0) => listSelectedIndex < Len(commits)
    /\ (mode = "branch" /\ Len(selectableBranches(Cur)) > 0)
       => listSelectedIndex < Len(selectableBranches(Cur))

\* C37: in every state with a selected file the scroll offset lies between
\* 0 and maxScroll, the number of lines of the content of the selected
\* file less the visible height, or 0 when that is negative.
C37_ScrollWithinContent ==
    HasSelectedFile(Cur)
    => /\ scrollOffset >= 0
       /\ scrollOffset <= Max(0, Len(selectedFile(Cur).content) - visibleHeight)

\* C38: the chunk index is -1 or an index into the chunk list of the
\* selected file, at least 0 and less than chunkCount, in every state
\* with a selected file.
C38_ChunkIndexValid ==
    HasSelectedFile(Cur)
    => \/ currentChunkIndex = -1
       \/ /\ currentChunkIndex >= 0
          /\ currentChunkIndex < Len(ChunksOf(selectedFile(Cur).changedLines))

(***************************************************************************)
(* Overlapping listings.  A key may start a listing while another is in    *)
(* flight: the startup listing and that of a mode switch, or the listings  *)
(* of two commits or branches entered one after the other.                 *)
(***************************************************************************)
OverlapKeys == {Plain("m"), Special("return"), Special("escape")}

\* a key event; one listing more than MaxLists may be in flight after it
OverlapPress(key) ==
    /\ running
    /\ LET n == useKeyboard(Cur, key)
       IN  /\ BagCardinality(n.pendingLists) <= MaxLists + 1
           /\ BagCardinality(n.pendingLoads) <= MaxLoads
           /\ Step(n, KeyEvent(key))

NextOverlap ==
    \/ \E key \in OverlapKeys : OverlapPress(key)
    \/ Resolutions({AllOk})

SpecOverlap == Init /\ [][NextOverlap]_vars

\* the path and the status of the entries of a file collection
Entries(list) == [i \in 1..Len(list) |-> <<list[i].path, list[i].status>>]

\* the listing of the comparison target of the state
ListingOfTarget ==
    IF mode = "commit" /\ selectedCommit # Null
    THEN getCommitChanges(selectedCommit, AllOk)
    ELSE IF mode = "branch" /\ selectedBranch # Null
    THEN getBranchChanges(selectedBranch, AllOk)
    ELSE getGitChanges(AllOk)

\* C39: once every listing in flight has resolved, the file collection of
\* the files view holds the entries of the listing of the current
\* comparison target, whatever the order in which overlapping listings
\* resolved: a listing that resolves after its target was superseded does
\* not replace the file collection.
C39_FilesOfCurrentTarget ==
    (pendingLists = EmptyBag /\ viewState = "files")
    => Entries(files) = Entries(ListingOfTarget)

\* the positions of the Addition DiffLines of the result: newLineNumber - 1
AdditionPositions ==
    {fnResult[k].newLineNumber - 1 :
        k \in {j \in 1..Len(fnResult) : fnResult[j].type = "addition"}}

\* line i of the diff comes after a line that matches the pattern of a
\* hunk header
AfterHeader(diff, i) ==
    \E j \in 1..(i - 1) : StartsWith(diff[j], <<"@", "@">>) /\ HunkMatch(diff[j]).ok

\* the line is an added or a deleted line: + or - but not +++ or ---
Changes(line, marker) ==
    StartsWith(line, <<marker>>) /\ ~StartsWith(line, <<marker, marker, marker>>)

\* C40: for every diff in which each added line follows a well-formed hunk
\* header, the positions newLineNumber - 1 of the Addition DiffLines of
\* parseDiff are among the positions parseChangedLines returns, and they
\* are all of them when the diff has no deleted line.
C40_AdditionsAgree ==
    (/\ Parsed
     /\ \A i \in 1..Len(fnCall.diff) :
           Changes(fnCall.diff[i], "+") => AfterHeader(fnCall.diff, i))
    => /\ AdditionPositions \subseteq SeqToSet(parseChangedLines(fnCall.diff))
       /\ (\A i \in 1..Len(fnCall.diff) : ~Changes(fnCall.diff[i], "-"))
          => AdditionPositions = SeqToSet(parseChangedLines(fnCall.diff))

====
